---- MODULE Spec2Model ----
(***************************************************************************)
(* Weather dashboard backend: the weather gateway (WeatherService), the    *)
(* SQLite cache store behind it (weather_cache table) and the hourly       *)
(* sweep, modelled as a state machine.                                     *)
(*                                                                         *)
(* Units.  Wall-clock time is counted in whole minutes since the epoch.    *)
(* Temperatures and wind speeds of the upstream provider are integers in   *)
(* tenths (12.7 C is 127), visibility is in metres, coordinates are in     *)
(* thousandths of a degree.                                                *)
(***************************************************************************)
EXTENDS Integers, Sequences, FiniteSets, TLC

(***************************************************************************)
(* JavaScript values.  Every scalar is a tagged tuple so that values of    *)
(* different JavaScript types can be compared.                             *)
(***************************************************************************)
Num(n) == <<"number", n>>
Str(s) == <<"string", s>>
Undefined == <<"undefined">>
Null == <<"null">>
NaN == <<"NaN">>

IsNum(v) == Len(v) = 2 /\ v[1] = "number"

\* JavaScript truthiness of a scalar: undefined, null, NaN, 0 and "" are falsy.
Truthy(v) ==
  /\ v # Undefined
  /\ v # Null
  /\ v # NaN
  /\ v # Num(0)
  /\ v # Str("")

\* Math.round of a value given in tenths: floor(x + 0.5); NaN for a non-number.
MathRoundTenths(v) ==
  IF IsNum(v) THEN Num((v[2] + 5) \div 10) ELSE NaN

\* Math.round(metres / 1000)
MathRoundKm(v) ==
  IF IsNum(v) THEN Num((v[2] + 500) \div 1000) ELSE NaN

\* Math.round(speed * 3.6) for a speed in tenths of m/s
MathRoundKmh(v) ==
  IF IsNum(v) THEN Num((v[2] * 36 + 50) \div 100) ELSE NaN

(***************************************************************************)
(* JSON.  JSON.stringify omits the properties of an object whose value is  *)
(* undefined and writes NaN as null; the stored text is modelled as the    *)
(* document it denotes, and JSON.parse gives that document back.           *)
(***************************************************************************)
JSONScalar(v) == IF v = NaN THEN Null ELSE v

JSONObject(o) ==
  [k \in {f \in DOMAIN o : o[f] # Undefined} |-> JSONScalar(o[k])]

JSONObjects(s) == [i \in 1..Len(s) |-> JSONObject(s[i])]

\* JSON.stringify of a normalized current-weather object
StringifyCurrent(c) ==
  [json |->
    [location |-> JSONObject(c.location),
     weather |-> JSONObject(c.weather),
     temperature |-> JSONObject(c.temperature),
     details |-> JSONObject(c.details),
     sun |-> JSONObject(c.sun),
     timestamp |-> JSONScalar(c.timestamp)]]

StringifyDay(d) ==
  [date |-> JSONScalar(d.date),
   weather |-> JSONObject(d.weather),
   temperature |-> JSONObject(d.temperature),
   details |-> JSONObject(d.details),
   hourlyData |-> JSONObjects(d.hourlyData)]

\* JSON.stringify of a normalized forecast object
StringifyForecast(f) ==
  [json |->
    [city |-> JSONObject(f.city),
     forecast |-> [i \in 1..Len(f.forecast) |-> StringifyDay(f.forecast[i])]]]

JSONParse(text) == text.json

(***************************************************************************)
(* Timestamps as text.  Date.toISOString() gives "YYYY-MM-DDTHH:MM:SS.sssZ"*)
(* and SQLite's datetime("now") gives "YYYY-MM-DD HH:MM:SS".  The column   *)
(* expires_at keeps the text it is given, and SQLite compares two texts    *)
(* byte by byte.  A timestamp text is modelled by its three parts: the     *)
(* date (day number), the separator character (its byte) and the time of   *)
(* day (minute of the day); all fields are zero-padded, so comparing the   *)
(* parts in order is comparing the bytes.                                  *)
(***************************************************************************)
MinutesPerDay == 24 * 60

\* byte of the letter T
SepT == 84

\* byte of the space character
SepSpace == 32

toISOString(t) ==
  [date |-> t \div MinutesPerDay, sep |-> SepT, time |-> t % MinutesPerDay]

datetimeNow(t) ==
  [date |-> t \div MinutesPerDay, sep |-> SepSpace, time |-> t % MinutesPerDay]

\* the instant a timestamp text denotes
InstantOf(text) == text.date * MinutesPerDay + text.time

\* a < b in SQLite's text collation (BINARY)
TextLess(a, b) ==
  \/ a.date < b.date
  \/ a.date = b.date /\ a.sep < b.sep
  \/ a.date = b.date /\ a.sep = b.sep /\ a.time < b.time

\* a <= b in the same collation
TextLessEq(a, b) == a = b \/ TextLess(a, b)

(***************************************************************************)
(* Cache key.                                                              *)
(***************************************************************************)
Abs(x) == IF x < 0 THEN -x ELSE x

\* Number.prototype.toFixed(2) of a coordinate in thousandths: a minus sign
\* when the number is below zero, then the magnitude rounded to hundredths.
toFixed2(x) ==
  [minus |-> x < 0, hundredths |-> (Abs(x) + 5) \div 10]

generateCacheKey(lat, lon) == <<toFixed2(lat), toFixed2(lon)>>

(***************************************************************************)
(* Normalisation of upstream payloads.                                     *)
(***************************************************************************)
\* a JavaScript object held in a property that may also be undefined
Obj(o) == <<"object", o>>

IsObj(v) == Len(v) = 2 /\ v[1] = "object"

\* new Date(seconds * 1000).toISOString(): the text of that instant
IsoOfEpoch(v) == <<"isotime", v[2]>>

formatCurrentWeather(data) ==
  [location |->
     [name |-> data.name,
      country |-> data.sys.country,
      lat |-> data.coord.lat,
      lon |-> data.coord.lon],
   weather |->
     [main |-> data.weather0.main,
      description |-> data.weather0.description,
      icon |-> data.weather0.icon],
   temperature |->
     [current |-> MathRoundTenths(data.main.temp),
      feelsLike |-> MathRoundTenths(data.main.feels_like),
      min |-> MathRoundTenths(data.main.temp_min),
      max |-> MathRoundTenths(data.main.temp_max)],
   details |->
     [humidity |-> data.main.humidity,
      pressure |-> data.main.pressure,
      visibility |-> IF Truthy(data.visibility)
                       THEN MathRoundKm(data.visibility) ELSE Null,
      windSpeed |-> IF IsObj(data.wind)
                      THEN MathRoundKmh(data.wind[2].speed) ELSE Num(0),
      windDirection |-> IF IsObj(data.wind) THEN data.wind[2].deg ELSE Num(0),
      cloudiness |-> data.clouds.all],
   sun |->
     [sunrise |-> IsoOfEpoch(data.sys.sunrise),
      sunset |-> IsoOfEpoch(data.sys.sunset)],
   timestamp |-> IsoOfEpoch(data.dt)]

SecondsPerDay == 24 * 60 * 60

\* date.toISOString().split('T')[0] of an epoch-seconds timestamp
dateKey(dt) == dt \div SecondsPerDay

RECURSIVE SumSeq(_)
SumSeq(s) == IF s = <<>> THEN 0 ELSE Head(s) + SumSeq(Tail(s))

\* a mutant of SeqMin: the first value
SeqMin_first(s) == s[1]

SeqMin(s) == CHOOSE m \in {s[i] : i \in 1..Len(s)} :
               \A i \in 1..Len(s) : m <= s[i]

SeqMax(s) == CHOOSE m \in {s[i] : i \in 1..Len(s)} :
               \A i \in 1..Len(s) : m >= s[i]

\* a mutant of FirstOccurrences: the values in order of last occurrence
RECURSIVE FirstOccurrences_lastWins(_)
FirstOccurrences_lastWins(s) ==
  IF s = <<>> THEN <<>>
  ELSE LET rest == FirstOccurrences_lastWins(Tail(s))
       IN IF \E i \in 1..Len(rest) : rest[i] = Head(s)
            THEN rest ELSE <<Head(s)>> \o rest

\* the values of s in order of first occurrence (insertion order of the keys
\* of a JavaScript object)
RECURSIVE FirstOccurrences(_)
FirstOccurrences(s) ==
  IF s = <<>> THEN <<>>
  ELSE LET init == FirstOccurrences(SubSeq(s, 1, Len(s) - 1))
           last == s[Len(s)]
       IN IF \E i \in 1..Len(init) : init[i] = last
            THEN init ELSE Append(init, last)

\* Math.round(sum / length) for a sum whose unit is 1/scale
MathRoundMean(sum, n, scale) == (2 * sum + scale * n) \div (2 * scale * n)

\* Array.prototype.reduce((a, b) => weatherCount[a] > weatherCount[b] ? a : b)
\* without an initial value, over the keys of weatherCount
RECURSIVE ReduceMostCommon(_, _, _)
ReduceMostCommon(acc, keys, count) ==
  IF keys = <<>> THEN acc
  ELSE ReduceMostCommon(
         IF count[acc] > count[Head(keys)] THEN acc ELSE Head(keys),
         Tail(keys), count)

\* a mutant of getMostCommonWeather: the last sample of the commonest
\* condition is returned
getMostCommonWeather_findLast(weatherArray) ==
  LET mains == [i \in 1..Len(weatherArray) |-> weatherArray[i].main]
      keys == FirstOccurrences(mains)
      weatherCount == [k \in {mains[i] : i \in 1..Len(mains)} |->
                         Cardinality({i \in 1..Len(mains) : mains[i] = k})]
      mostCommon == ReduceMostCommon(Head(keys), Tail(keys), weatherCount)
      last == CHOOSE i \in 1..Len(weatherArray) :
                /\ weatherArray[i].main = mostCommon
                /\ \A j \in (i + 1)..Len(weatherArray) :
                     weatherArray[j].main # mostCommon
  IN weatherArray[last]

getMostCommonWeather(weatherArray) ==
  LET mains == [i \in 1..Len(weatherArray) |-> weatherArray[i].main]
      keys == FirstOccurrences(mains)
      weatherCount == [k \in {mains[i] : i \in 1..Len(mains)} |->
                         Cardinality({i \in 1..Len(mains) : mains[i] = k})]
      mostCommon == ReduceMostCommon(Head(keys), Tail(keys), weatherCount)
      first == CHOOSE i \in 1..Len(weatherArray) :
                 /\ weatherArray[i].main = mostCommon
                 /\ \A j \in 1..(i - 1) : weatherArray[j].main # mostCommon
  IN weatherArray[first]

\* a mutant of DayGroup: each wind speed is rounded when it is converted
DayGroup_roundedSpeeds(list, key) ==
  LET items == SelectSeq(list, LAMBDA item : dateKey(item.dt) = key)
  IN [date |-> key,
      temperatures |-> [i \in 1..Len(items) |-> items[i].main.temp],
      weather |-> [i \in 1..Len(items) |->
                     [main |-> items[i].weather0.main,
                      description |-> items[i].weather0.description,
                      icon |-> items[i].weather0.icon,
                      time |-> <<"isotime", items[i].dt>>]],
      humidity |-> [i \in 1..Len(items) |-> items[i].main.humidity],
      pressure |-> [i \in 1..Len(items) |-> items[i].main.pressure],
      windSpeed |-> [i \in 1..Len(items) |->
                       IF IsObj(items[i].wind)
                         THEN ((items[i].wind[2].speed * 36 + 50) \div 100) * 100
                         ELSE 0]]

\* the entry of dailyForecasts for one date key
DayGroup(list, key) ==
  LET items == SelectSeq(list, LAMBDA item : dateKey(item.dt) = key)
  IN [date |-> key,
      temperatures |-> [i \in 1..Len(items) |-> items[i].main.temp],
      weather |-> [i \in 1..Len(items) |->
                     [main |-> items[i].weather0.main,
                      description |-> items[i].weather0.description,
                      icon |-> items[i].weather0.icon,
                      time |-> <<"isotime", items[i].dt>>]],
      humidity |-> [i \in 1..Len(items) |-> items[i].main.humidity],
      pressure |-> [i \in 1..Len(items) |-> items[i].main.pressure],
      windSpeed |-> [i \in 1..Len(items) |->
                       IF IsObj(items[i].wind)
                         THEN items[i].wind[2].speed * 36 ELSE 0]]

\* one element of Object.values(dailyForecasts).slice(0, 5).map(...)
DaySummary(day) ==
  LET n == Len(day.temperatures)
  IN [date |-> <<"date", day.date>>,
      weather |-> getMostCommonWeather(day.weather),
      temperature |->
        [min |-> Num((SeqMin(day.temperatures) + 5) \div 10),
         max |-> Num((SeqMax(day.temperatures) + 5) \div 10),
         avg |-> Num(MathRoundMean(SumSeq(day.temperatures), n, 10))],
      details |->
        [humidity |-> Num(MathRoundMean(SumSeq(day.humidity), n, 1)),
         pressure |-> Num(MathRoundMean(SumSeq(day.pressure), n, 1)),
         windSpeed |-> Num(MathRoundMean(SumSeq(day.windSpeed), n, 100))],
      hourlyData |-> day.weather]

MaxForecastDays == 5

formatForecast(data) ==
  LET keys == FirstOccurrences([i \in 1..Len(data.list) |->
                                  dateKey(data.list[i].dt)])
      kept == SubSeq(keys, 1,
                     IF Len(keys) < MaxForecastDays
                       THEN Len(keys) ELSE MaxForecastDays)
  IN [city |->
        [name |-> data.city.name,
         country |-> data.city.country,
         lat |-> data.city.coord.lat,
         lon |-> data.city.coord.lon],
      forecast |-> [i \in 1..Len(kept) |->
                      DaySummary(DayGroup(data.list, kept[i]))]]

(***************************************************************************)
(* Errors.  An upstream failure is an axios error: it carries either the   *)
(* HTTP status of a response (and perhaps a message in the body), or a     *)
(* transport code.  status 0 stands for "no response".                     *)
(***************************************************************************)
handleWeatherError(error) ==
  IF error.status # 0
    THEN CASE error.status = 401 ->
                "Invalid API key. Please check your OpenWeatherMap API key."
           [] error.status = 404 ->
                "Location not found. Please check the coordinates."
           [] error.status = 429 ->
                "API rate limit exceeded. Please try again later."
           [] error.status \in {500, 502, 503} ->
                "Weather service temporarily unavailable. Please try again later."
           [] OTHER ->
                IF error.message # "" THEN "Weather API error: " \o error.message
                ELSE "Weather API error: Unknown error"
  ELSE IF error.code = "ECONNABORTED"
    THEN "Request timeout. Please try again."
  ELSE IF error.code \in {"ENOTFOUND", "ECONNREFUSED"}
    THEN "Unable to connect to weather service. Please check your internet connection."
  ELSE "Failed to fetch weather data. Please try again later."

(***************************************************************************)
(* Bounds and inputs.                                                      *)
(***************************************************************************)
\* the clock runs over the days 0 .. MaxDays
MaxDays == 1

\* the gateway calls that can be in flight (one HTTP request at a time)
Requests == {1}

\* the times of day at which the clock is read: 10:00, 10:30 and 23:30
DayMinutes == {600, 630, 1410}

\* the instants at which the clock is read
Instants == {d * MinutesPerDay + m : d \in 0..MaxDays, m \in DayMinutes}

\* requested coordinates, in thousandths of a degree (no value ends in 5:
\* such a decimal is not a binary floating-point tie)
Latitudes == {-1, 1}

Longitudes == {-128}

\* settings of the environment variables WEATHER_CACHE_DURATION and
\* FORECAST_CACHE_DURATION: unset, or the number parseInt reads
Environments ==
  {[WEATHER_CACHE_DURATION |-> Undefined, FORECAST_CACHE_DURATION |-> Undefined],
   [WEATHER_CACHE_DURATION |-> Num(0), FORECAST_CACHE_DURATION |-> Num(0)],
   [WEATHER_CACHE_DURATION |-> Num(45), FORECAST_CACHE_DURATION |-> Num(60)]}

DefaultWeatherCacheDuration == 30

DefaultForecastCacheDuration == 180

\* parseInt(process.env.X) || fallback
ParseIntOr(env, fallback) ==
  IF IsNum(env) /\ env[2] # 0 THEN env[2] ELSE fallback

\* upstream current-weather payloads: a complete one, and one of a place at
\* sea: no country, no visibility, and a wind without direction
CurrentFull ==
  [name |-> Str("London"),
   sys |-> [country |-> Str("GB"), sunrise |-> Num(21600), sunset |-> Num(64800)],
   coord |-> [lat |-> Num(51507), lon |-> Num(-128)],
   weather0 |-> [main |-> Str("Rain"), description |-> Str("light rain"),
                 icon |-> Str("10d")],
   main |-> [temp |-> Num(125), feels_like |-> Num(-25), temp_min |-> Num(102),
             temp_max |-> Num(158), humidity |-> Num(81), pressure |-> Num(1012)],
   visibility |-> Num(10000),
   wind |-> Obj([speed |-> Num(50), deg |-> Num(240)]),
   clouds |-> [all |-> Num(75)],
   dt |-> Num(43200)]

CurrentSparse ==
  [name |-> Str(""),
   sys |-> [country |-> Undefined, sunrise |-> Num(21600), sunset |-> Num(64800)],
   coord |-> [lat |-> Num(0), lon |-> Num(-128)],
   weather0 |-> [main |-> Str("Clouds"), description |-> Str("few clouds"),
                 icon |-> Str("02d")],
   main |-> [temp |-> Num(204), feels_like |-> Num(198), temp_min |-> Num(204),
             temp_max |-> Num(204), humidity |-> Num(60), pressure |-> Num(1020)],
   visibility |-> Undefined,
   wind |-> Obj([speed |-> Num(31), deg |-> Undefined]),
   clouds |-> [all |-> Num(20)],
   dt |-> Num(43200)]

CurrentSamples == {CurrentFull, CurrentSparse}

ForecastItem(dt, temp, main, speed) ==
  [dt |-> dt,
   main |-> [temp |-> temp, humidity |-> 70, pressure |-> 1010],
   weather0 |-> [main |-> Str(main), description |-> Str(main),
                 icon |-> Str("01d")],
   wind |-> IF speed < 0 THEN Undefined ELSE Obj([speed |-> speed])]

ForecastWet ==
  [city |-> [name |-> Str("London"), country |-> Str("GB"),
             coord |-> [lat |-> Num(51507), lon |-> Num(-128)]],
   list |-> <<ForecastItem(0, 102, "Rain", 50),
              ForecastItem(10800, 158, "Rain", 20),
              ForecastItem(21600, 120, "Clouds", -1),
              ForecastItem(86400, 95, "Clear", 10)>>]

ForecastDry ==
  [city |-> [name |-> Str(""), country |-> Undefined,
             coord |-> [lat |-> Num(0), lon |-> Num(-128)]],
   list |-> <<ForecastItem(86400, 210, "Clear", 35)>>]

ForecastSamples == {ForecastWet, ForecastDry}

\* the forecast the provider serves together with a current-weather payload
ForecastOf(currentData) ==
  IF currentData = CurrentFull THEN ForecastWet ELSE ForecastDry

\* upstream failures: an HTTP 503 and a transport timeout
UpstreamErrors ==
  {[status |-> 503, code |-> "", message |-> ""],
   [status |-> 0, code |-> "ECONNABORTED", message |-> ""]}

\* geocoding results
GeoSamples ==
  {<<>>,
   <<[name |-> Str("London"), country |-> Str("GB"), state |-> Str("England"),
      lat |-> Num(51507), lon |-> Num(-128)],
     [name |-> Str("London"), country |-> Str("CA"), state |-> Undefined,
      lat |-> Num(42983), lon |-> Num(-81233)]>>}

(***************************************************************************)
(* State.                                                                  *)
(***************************************************************************)
VARIABLES
  now,                    \* wall clock, minutes
  weatherCacheDuration,   \* this.weatherCacheDuration
  forecastCacheDuration,  \* this.forecastCacheDuration
  cache,                  \* rows of the table weather_cache
  unswept,                \* the rows the table would hold had no sweep run
  swept,                  \* a sweep has run at this instant, and no write since
  req,                    \* the calls of the gateway in flight
  keyed,                  \* cache keys computed so far (key derivation alone)
  samples,                \* data.list handed to formatForecast
  aggregated,             \* the forecast list formatForecast returned for it
  upstreamCurrent,        \* data handed to formatCurrentWeather
  normalized,             \* what formatCurrentWeather returned for it
  upstreamError,          \* error handed to handleWeatherError
  thrown,                 \* message of the Error handleWeatherError returned
  user_cities,            \* rows of the table user_cities
  sqlite_sequence,        \* largest id the table user_cities has ever held
  response,               \* the last response of a router
  server,                 \* the HTTP server of the process, or its exit code
  cities,                 \* App: the ids of the cities of the list, in order
  selectedCityId,         \* App: selectedCityId
  searchQuery,            \* AddCityModal: searchQuery
  searchTimeout,          \* AddCityModal: the debounce timer that is pending
  inFlight,               \* AddCityModal: the queries of the searches awaiting their response
  searchResults,          \* AddCityModal: searchResults
  searched                \* AddCityModal: the last query handed to handleSearch

\* the state of the dashboard in the browser
client ==
  <<cities, selectedCityId, searchQuery, searchTimeout, inFlight, searchResults,
    searched>>

\* the variables of the parts studied apart from the gateway and its cache
apart ==
  <<samples, aggregated, upstreamCurrent, normalized, upstreamError, thrown,
    user_cities, sqlite_sequence, response, server, client>>

vars ==
  <<now, weatherCacheDuration, forecastCacheDuration, cache, unswept, swept,
    req, keyed, apart>>

NoValue == <<>>

Idle ==
  [op |-> "none", pc |-> "idle", lat |-> 0, lon |-> 0, cacheKey |-> NoValue,
   looked |-> FALSE, hit |-> FALSE, calls |-> 0,
   upstream |-> <<"none", "none">>, replaced |-> 0,
   result |-> NoValue, message |-> ""]

\* the server listens; the dashboard has loaded no city and the dialog is
\* as useState leaves it
ClientIdle ==
  /\ server = "listening"
  /\ cities = <<>>
  /\ selectedCityId = Null
  /\ searchQuery = Str("")
  /\ searchTimeout = Null
  /\ inFlight = <<>>
  /\ searchResults = <<"array", <<>>>>
  /\ searched = Null

\* nothing has been handed to the parts studied apart
ApartIdle ==
  /\ ClientIdle
  /\ samples = <<>>
  /\ aggregated = <<>>
  /\ upstreamCurrent = NoValue
  /\ normalized = NoValue
  /\ upstreamError = NoValue
  /\ thrown = ""
  /\ user_cities = {}
  /\ sqlite_sequence = 0
  /\ response = NoValue

(***************************************************************************)
(* Cache store (table weather_cache, city_key UNIQUE).                     *)
(***************************************************************************)
\* WHERE expires_at > datetime("now")
Unexpired(row, t) == TextLess(datetimeNow(t), row.expires_at)

\* SELECT * FROM weather_cache WHERE city_key = ? AND expires_at > datetime("now")
\* the rows found; db.get returns one of them, or undefined when there is none
getCachedWeather(rows, cityKey, t) ==
  {row \in rows : row.city_key = cityKey /\ Unexpired(row, t)}

\* a mutant of cacheWeather: INSERT OR IGNORE, the row in place is kept
cacheWeather_insertOrIgnore(rows, cityKey, currentWeather, forecastData, expiresAt, t) ==
  IF \E row \in rows : row.city_key = cityKey
    THEN rows
    ELSE rows
           \cup {[city_key |-> cityKey,
                  current_weather |-> StringifyCurrent(currentWeather),
                  forecast_data |-> StringifyForecast(forecastData),
                  cached_at |-> datetimeNow(t),
                  expires_at |-> expiresAt]}

\* a mutant of cacheWeather: a plain INSERT, nothing is replaced
cacheWeather_insertOnly(rows, cityKey, currentWeather, forecastData, expiresAt, t) ==
  rows
    \cup {[city_key |-> cityKey,
           current_weather |-> StringifyCurrent(currentWeather),
           forecast_data |-> StringifyForecast(forecastData),
           cached_at |-> datetimeNow(t),
           expires_at |-> expiresAt]}

\* INSERT OR REPLACE: the rows in conflict on city_key are deleted, then the
\* new row is inserted; cached_at takes its default, CURRENT_TIMESTAMP
cacheWeather(rows, cityKey, currentWeather, forecastData, expiresAt, t) ==
  {row \in rows : row.city_key # cityKey}
    \cup {[city_key |-> cityKey,
           current_weather |-> StringifyCurrent(currentWeather),
           forecast_data |-> StringifyForecast(forecastData),
           cached_at |-> datetimeNow(t),
           expires_at |-> expiresAt]}

\* a mutant of cleanExpiredCache: the rows whose instant of expiry has come
cleanExpiredCache_byInstant(rows, t) ==
  {row \in rows : t < InstantOf(row.expires_at)}

\* DELETE FROM weather_cache WHERE expires_at <= datetime("now")
cleanExpiredCache(rows, t) ==
  {row \in rows : ~ TextLessEq(row.expires_at, datetimeNow(t))}

Init ==
  /\ now \in Instants
  /\ \E env \in Environments :
       /\ weatherCacheDuration =
            ParseIntOr(env.WEATHER_CACHE_DURATION, DefaultWeatherCacheDuration)
       /\ forecastCacheDuration =
            ParseIntOr(env.FORECAST_CACHE_DURATION, DefaultForecastCacheDuration)
  /\ cache = {}
  /\ unswept = {}
  /\ swept = FALSE
  /\ req = [r \in Requests |-> Idle]
  /\ keyed = {}
  /\ ApartIdle

(***************************************************************************)
(* Gateway operations.  Each method is two steps: the call up to its first *)
(* upstream request (cache lookup included), and the arrival of the        *)
(* upstream responses with everything the method does after them.          *)
(***************************************************************************)
Started(r, op, lat, lon) ==
  [Idle EXCEPT !.op = op, !.lat = lat, !.lon = lon,
               !.cacheKey = generateCacheKey(lat, lon)]

Failed(q, error) ==
  [q EXCEPT !.pc = "failed", !.message = handleWeatherError(error)]

getCurrentWeatherCall(r, lat, lon) ==
  /\ req[r].pc = "idle"
  /\ LET q == [Started(r, "current", lat, lon) EXCEPT !.looked = TRUE]
         cached == getCachedWeather(cache, q.cacheKey, now)
     IN IF cached # {}
          THEN \E row \in cached :
                 req' = [req EXCEPT ![r] =
                   [q EXCEPT !.pc = "done", !.hit = TRUE,
                             !.result = JSONParse(row.current_weather)]]
          ELSE req' = [req EXCEPT ![r] = [q EXCEPT !.pc = "fetch", !.calls = 1]]
  /\ UNCHANGED <<now, weatherCacheDuration, forecastCacheDuration, cache,
                 unswept, swept, keyed, apart>>

\* a mutant of getCurrentWeatherResponse: the fetched payload is cached
getCurrentWeatherResponse_caching(r) ==
  /\ req[r].pc = "fetch"
  /\ req[r].op = "current"
  /\ \/ \E data \in CurrentSamples :
          /\ req' = [req EXCEPT ![r] =
               [@ EXCEPT !.pc = "done", !.result = formatCurrentWeather(data)]]
          /\ cache' = cacheWeather(cache, req[r].cacheKey,
                                   formatCurrentWeather(data),
                                   formatForecast(ForecastOf(data)),
                                   toISOString(now + weatherCacheDuration), now)
     \/ \E error \in UpstreamErrors :
          /\ req' = [req EXCEPT ![r] = Failed(@, error)]
          /\ cache' = cache
  /\ UNCHANGED <<now, weatherCacheDuration, forecastCacheDuration, unswept,
                 swept, keyed, apart>>

getCurrentWeatherResponse(r) ==
  /\ req[r].pc = "fetch"
  /\ req[r].op = "current"
  /\ \/ \E data \in CurrentSamples :
          req' = [req EXCEPT ![r] =
            [@ EXCEPT !.pc = "done", !.result = formatCurrentWeather(data)]]
     \/ \E error \in UpstreamErrors :
          req' = [req EXCEPT ![r] = Failed(@, error)]
  /\ UNCHANGED <<now, weatherCacheDuration, forecastCacheDuration, cache,
                 unswept, swept, keyed, apart>>

\* a mutant of getForecastCall: a hit returns the other column, and the
\* upstream call is made all the same
getForecastCall_wrongColumn(r, lat, lon) ==
  /\ req[r].pc = "idle"
  /\ LET q == [Started(r, "forecast", lat, lon) EXCEPT !.looked = TRUE]
         cached == getCachedWeather(cache, q.cacheKey, now)
     IN IF cached # {}
          THEN \E row \in cached :
                 req' = [req EXCEPT ![r] =
                   [q EXCEPT !.pc = "done", !.hit = TRUE, !.calls = 1,
                             !.result = JSONParse(row.current_weather)]]
          ELSE req' = [req EXCEPT ![r] = [q EXCEPT !.pc = "fetch", !.calls = 1]]
  /\ UNCHANGED <<now, weatherCacheDuration, forecastCacheDuration, cache,
                 unswept, swept, keyed, apart>>

getForecastCall(r, lat, lon) ==
  /\ req[r].pc = "idle"
  /\ LET q == [Started(r, "forecast", lat, lon) EXCEPT !.looked = TRUE]
         cached == getCachedWeather(cache, q.cacheKey, now)
     IN IF cached # {}
          THEN \E row \in cached :
                 req' = [req EXCEPT ![r] =
                   [q EXCEPT !.pc = "done", !.hit = TRUE,
                             !.result = JSONParse(row.forecast_data)]]
          ELSE req' = [req EXCEPT ![r] = [q EXCEPT !.pc = "fetch", !.calls = 1]]
  /\ UNCHANGED <<now, weatherCacheDuration, forecastCacheDuration, cache,
                 unswept, swept, keyed, apart>>

getForecastResponse(r) ==
  /\ req[r].pc = "fetch"
  /\ req[r].op = "forecast"
  /\ \/ \E data \in ForecastSamples :
          req' = [req EXCEPT ![r] =
            [@ EXCEPT !.pc = "done", !.result = formatForecast(data)]]
     \/ \E error \in UpstreamErrors :
          req' = [req EXCEPT ![r] = Failed(@, error)]
  /\ UNCHANGED <<now, weatherCacheDuration, forecastCacheDuration, cache,
                 unswept, swept, keyed, apart>>

\* what getCompleteWeatherData returns from a row of the cache
completeFromCache(row) ==
  [current |-> JSONParse(row.current_weather),
   forecast |-> JSONParse(row.forecast_data)]

getCompleteWeatherDataCall(r, lat, lon) ==
  /\ req[r].pc = "idle"
  /\ LET q == [Started(r, "complete", lat, lon) EXCEPT !.looked = TRUE]
         cached == getCachedWeather(cache, q.cacheKey, now)
     IN IF cached # {}
          THEN \E row \in cached :
                 req' = [req EXCEPT ![r] =
                   [q EXCEPT !.pc = "done", !.hit = TRUE,
                             !.result = completeFromCache(row)]]
          ELSE req' = [req EXCEPT ![r] = [q EXCEPT !.pc = "fetch", !.calls = 2]]
  /\ UNCHANGED <<now, weatherCacheDuration, forecastCacheDuration, cache,
                 unswept, swept, keyed, apart>>

\* const expiresAt = new Date(); expiresAt.setMinutes(... + weatherCacheDuration);
\* expiresAt.toISOString()
newExpiresAt_forecastDuration == toISOString(now + forecastCacheDuration)

newExpiresAt == toISOString(now + weatherCacheDuration)

\* a mutant of completeRejected: the half that arrived is cached
completeRejected_cachesHalf(r, error, settled) ==
  /\ req' = [req EXCEPT ![r] = [Failed(@, error) EXCEPT !.upstream = settled]]
  /\ IF settled = <<"ok", "error">>
       THEN \E currentData \in CurrentSamples :
              cache' = cacheWeather(cache, req[r].cacheKey,
                                    formatCurrentWeather(currentData),
                                    [city |-> [name |-> Undefined],
                                     forecast |-> <<>>],
                                    newExpiresAt, now)
       ELSE cache' = cache
  /\ UNCHANGED <<unswept, swept>>

\* the catch block of getCompleteWeatherData: Promise.all has rejected
completeRejected(r, error, settled) ==
  /\ req' = [req EXCEPT ![r] = [Failed(@, error) EXCEPT !.upstream = settled]]
  /\ UNCHANGED <<cache, unswept, swept>>

\* Promise.all of the two upstream calls settles: both fulfilled, or the
\* first rejection (the other call fulfilled, or rejected too)
getCompleteWeatherDataResponse(r) ==
  /\ req[r].pc = "fetch"
  /\ req[r].op = "complete"
  /\ \/ \E currentData \in CurrentSamples :
          LET forecastData == ForecastOf(currentData)
              currentWeather == formatCurrentWeather(currentData)
              forecast == formatForecast(forecastData)
              expiresAt == newExpiresAt
          IN /\ cache' = cacheWeather(cache, req[r].cacheKey, currentWeather,
                                      forecast, expiresAt, now)
             /\ unswept' = cacheWeather(unswept, req[r].cacheKey, currentWeather,
                                        forecast, expiresAt, now)
             /\ swept' = FALSE
             /\ req' = [req EXCEPT ![r] =
                  [@ EXCEPT !.pc = "done",
                            !.replaced = Cardinality(
                               {row \in cache : row.city_key = req[r].cacheKey}),
                            !.upstream = <<"ok", "ok">>,
                            !.result = [current |-> currentWeather,
                                        forecast |-> forecast]]]
     \/ \E error \in UpstreamErrors,
           settled \in {<<"error", "ok">>, <<"ok", "error">>,
                        <<"error", "error">>} :
          completeRejected(r, error, settled)
  /\ UNCHANGED <<now, weatherCacheDuration, forecastCacheDuration, keyed, apart>>

searchCitiesCall(r) ==
  /\ req[r].pc = "idle"
  /\ req' = [req EXCEPT ![r] =
       [Idle EXCEPT !.op = "search", !.pc = "fetch", !.calls = 1]]
  /\ UNCHANGED <<now, weatherCacheDuration, forecastCacheDuration, cache,
                 unswept, swept, keyed, apart>>

\* `${city.name}${city.state ? ', ' + city.state : ''}, ${city.country}`
displayName(city) ==
  IF Truthy(city.state)
    THEN <<"text", city.name, Str(", "), city.state, Str(", "), city.country>>
    ELSE <<"text", city.name, Str(", "), city.country>>

searchCitiesResponse(r) ==
  /\ req[r].pc = "fetch"
  /\ req[r].op = "search"
  /\ \/ \E data \in GeoSamples :
          req' = [req EXCEPT ![r] =
            [@ EXCEPT !.pc = "done",
                      !.result = [i \in 1..Len(data) |->
                         [name |-> data[i].name, country |-> data[i].country,
                          state |-> data[i].state, lat |-> data[i].lat,
                          lon |-> data[i].lon,
                          displayName |-> displayName(data[i])]]]]
     \/ \E error \in UpstreamErrors :
          req' = [req EXCEPT ![r] = Failed(@, error)]
  /\ UNCHANGED <<now, weatherCacheDuration, forecastCacheDuration, cache,
                 unswept, swept, keyed, apart>>

\* the caller has taken the outcome of the call
Return(r) ==
  /\ req[r].pc \in {"done", "failed"}
  /\ req' = [req EXCEPT ![r] = Idle]
  /\ UNCHANGED <<now, weatherCacheDuration, forecastCacheDuration, cache,
                 unswept, swept, keyed, apart>>

\* the timer of the constructor fires (the table outlives the process, so a
\* sweep can meet rows of any age)
Sweep ==
  /\ cache' = cleanExpiredCache(cache, now)
  /\ swept' = TRUE
  /\ UNCHANGED <<now, weatherCacheDuration, forecastCacheDuration, unswept, req,
                 keyed, apart>>

Tick(t) ==
  /\ t > now
  /\ now' = t
  /\ swept' = FALSE
  /\ UNCHANGED <<weatherCacheDuration, forecastCacheDuration, cache, unswept, req,
                 keyed, apart>>

Next ==
  \/ \E r \in DOMAIN req, lat \in Latitudes, lon \in Longitudes :
       getCurrentWeatherCall(r, lat, lon)
  \/ \E r \in DOMAIN req : getCurrentWeatherResponse(r)
  \/ \E r \in DOMAIN req, lat \in Latitudes, lon \in Longitudes :
       getForecastCall(r, lat, lon)
  \/ \E r \in DOMAIN req : getForecastResponse(r)
  \/ \E r \in DOMAIN req, lat \in Latitudes, lon \in Longitudes :
       getCompleteWeatherDataCall(r, lat, lon)
  \/ \E r \in DOMAIN req : getCompleteWeatherDataResponse(r)
  \/ \E r \in DOMAIN req : searchCitiesCall(r)
  \/ \E r \in DOMAIN req : searchCitiesResponse(r)
  \/ \E r \in DOMAIN req : Return(r)
  \/ Sweep
  \/ \E t \in Instants : Tick(t)

Spec == Init /\ [][Next]_vars

(***************************************************************************)
(* Key derivation alone: generateCacheKey applied to coordinate pairs.     *)
(***************************************************************************)
\* coordinates run over -MaxCoord .. MaxCoord thousandths of a degree
MaxCoord == 12

\* number of keys kept side by side
MaxKeyed == 2

\* a decimal ending in 5 thousandths is no binary floating-point tie: left out
KeyLatitudes == {x \in (0 - MaxCoord)..MaxCoord : Abs(x) % 10 # 5}

KeyLongitudes == {-6, -4, 4, 6}

KeyInit ==
  /\ now = 600
  /\ weatherCacheDuration = DefaultWeatherCacheDuration
  /\ forecastCacheDuration = DefaultForecastCacheDuration
  /\ cache = {}
  /\ unswept = {}
  /\ swept = FALSE
  /\ req = [r \in Requests |-> Idle]
  /\ keyed = {}
  /\ ApartIdle

GenerateKey(lat, lon) ==
  /\ Cardinality(keyed) < MaxKeyed
  /\ keyed' = keyed \cup
       {[lat |-> lat, lon |-> lon, key |-> generateCacheKey(lat, lon)]}
  /\ UNCHANGED <<now, weatherCacheDuration, forecastCacheDuration, cache,
                 unswept, swept, req, apart>>

KeyNext == \E lat \in KeyLatitudes, lon \in KeyLongitudes : GenerateKey(lat, lon)

KeySpec == KeyInit /\ [][KeyNext]_vars

(***************************************************************************)
(* Two calls of getCompleteWeatherData in flight at once.  Node runs the   *)
(* code between two awaits without interruption, so the calls interleave   *)
(* at the awaits: after the lookup, and after Promise.all.                 *)
(***************************************************************************)
RaceRequests == {1, 2}

\* two coordinates of one key ("0.00,-0.13"), and one of another key
RaceLatitudes == {1, 2, 12}

\* the clock is read at 10:00 and at 10:30 of day 0
RaceInstants == {600, 630}

RaceInit ==
  /\ now = 600
  /\ weatherCacheDuration = DefaultWeatherCacheDuration
  /\ forecastCacheDuration = DefaultForecastCacheDuration
  /\ cache = {}
  /\ unswept = {}
  /\ swept = FALSE
  /\ req = [r \in RaceRequests |-> Idle]
  /\ keyed = {}
  /\ ApartIdle

RaceNext ==
  \/ \E r \in DOMAIN req, lat \in RaceLatitudes, lon \in Longitudes :
       getCompleteWeatherDataCall(r, lat, lon)
  \/ \E r \in DOMAIN req : getCompleteWeatherDataResponse(r)
  \/ \E r \in DOMAIN req : Return(r)
  \/ \E t \in RaceInstants : Tick(t)

RaceSpec == RaceInit /\ [][RaceNext]_vars

(***************************************************************************)
(* The aggregator alone, over the dates of the samples: formatForecast     *)
(* applied to a list that grows by one sample at a time, of any date.      *)
(***************************************************************************)
\* number of samples in the list
MaxSamples == 6

\* the UTC dates the samples fall on (days since the epoch)
SampleDates == 0..5

SecondsPerSlot == 3 * 60 * 60

SlotsPerDay == SecondsPerDay \div SecondsPerSlot

\* the city block of a forecast payload
SampleCity == ForecastWet.city

\* the i-th sample of a list, on the date d: the provider's 3-hour slots
DatedSample(i, d) ==
  ForecastItem(d * SecondsPerDay + SecondsPerSlot * (i % SlotsPerDay),
               100 + 10 * d,
               IF d % 2 = 0 THEN "Rain" ELSE "Clouds",
               20)

GatewayIdle ==
  /\ now = 600
  /\ weatherCacheDuration = DefaultWeatherCacheDuration
  /\ forecastCacheDuration = DefaultForecastCacheDuration
  /\ cache = {}
  /\ unswept = {}
  /\ swept = FALSE
  /\ req = [r \in Requests |-> Idle]
  /\ keyed = {}

AggInit ==
  /\ GatewayIdle
  /\ samples = <<>>
  /\ aggregated = formatForecast([city |-> SampleCity, list |-> <<>>]).forecast
  /\ upstreamCurrent = NoValue
  /\ normalized = NoValue
  /\ upstreamError = NoValue
  /\ thrown = ""
  /\ user_cities = {}
  /\ sqlite_sequence = 0
  /\ response = NoValue
  /\ ClientIdle

\* formatForecast is applied to the list with one more sample, on the date d
Aggregate(d) ==
  /\ Len(samples) < MaxSamples
  /\ samples' = Append(samples, DatedSample(Len(samples), d))
  /\ aggregated' =
       formatForecast([city |-> SampleCity, list |-> samples']).forecast
  /\ UNCHANGED <<now, weatherCacheDuration, forecastCacheDuration, cache,
                 unswept, swept, req, keyed, server, client, upstreamCurrent, normalized,
                 upstreamError, thrown, user_cities, sqlite_sequence, response>>

AggNext == \E d \in SampleDates : Aggregate(d)

AggSpec == AggInit /\ [][AggNext]_vars

(***************************************************************************)
(* The normalisation of the samples of one day: formatForecast applied to  *)
(* a day that grows by one 3-hour sample at a time, and                    *)
(* formatCurrentWeather applied to the current conditions of that sample.  *)
(***************************************************************************)
\* number of samples of the day
MaxDaySamples == 3

\* temperatures of the samples, tenths of a degree
SampleTemps == {102, 158, 120, 25, -25}

SampleMains == {"Rain", "Clouds", "Clear"}

\* the wind speed measured with a temperature, tenths of m/s (below 0: the
\* sample carries no wind block)
WindOf(temp) ==
  CASE temp = 102 -> 50
    [] temp = 158 -> 14
    [] temp = 120 -> 10
    [] temp = 25 -> -1
    [] OTHER -> 14

\* the current-weather payload of the provider at the time of a sample
CurrentOf(item) ==
  [CurrentFull EXCEPT
     !.main.temp = Num(item.main.temp),
     !.weather0.main = item.weather0.main,
     !.wind = IF IsObj(item.wind)
                THEN Obj([speed |-> Num(item.wind[2].speed), deg |-> Num(240)])
                ELSE Undefined,
     !.dt = Num(item.dt)]

DayInit ==
  /\ GatewayIdle
  /\ samples = <<>>
  /\ aggregated = formatForecast([city |-> SampleCity, list |-> <<>>]).forecast
  /\ upstreamCurrent = NoValue
  /\ normalized = NoValue
  /\ upstreamError = NoValue
  /\ thrown = ""
  /\ user_cities = {}
  /\ sqlite_sequence = 0
  /\ response = NoValue
  /\ ClientIdle

Normalize(temp, main) ==
  /\ Len(samples) < MaxDaySamples
  /\ LET item == ForecastItem(SecondsPerSlot * Len(samples), temp, main,
                              WindOf(temp))
     IN /\ samples' = Append(samples, item)
        /\ aggregated' =
             formatForecast([city |-> SampleCity, list |-> samples']).forecast
        /\ upstreamCurrent' = CurrentOf(item)
        /\ normalized' = formatCurrentWeather(CurrentOf(item))
  /\ UNCHANGED <<now, weatherCacheDuration, forecastCacheDuration, cache,
                 unswept, swept, req, keyed, server, client, upstreamError, thrown,
                 user_cities, sqlite_sequence, response>>

DayNext == \E temp \in SampleTemps, main \in SampleMains : Normalize(temp, main)

DaySpec == DayInit /\ [][DayNext]_vars

(***************************************************************************)
(* The classification of upstream failures alone: handleWeatherError       *)
(* applied to the errors axios rejects with.                               *)
(***************************************************************************)
\* HTTP statuses of a failed upstream response
ErrorStatuses == {400, 401, 403, 404, 429} \cup 500..599

\* the message property of the body of a failed response ("": none)
ErrorMessages == {"", "city not found", "Internal error"}

\* codes of the failures without a response: the timeout of axios, failures of
\* the DNS lookup, failures of the connection, and a cancelled request
TransportCodes ==
  {"ECONNABORTED", "ENOTFOUND", "EAI_AGAIN", "ECONNREFUSED", "ECONNRESET",
   "EHOSTUNREACH", "ERR_CANCELED"}

AxiosErrors ==
  {[status |-> st, code |-> IF st < 500 THEN "ERR_BAD_REQUEST" ELSE "ERR_BAD_RESPONSE",
    message |-> m] : st \in ErrorStatuses, m \in ErrorMessages}
    \cup {[status |-> 0, code |-> c, message |-> ""] : c \in TransportCodes}

ErrInit ==
  /\ GatewayIdle
  /\ ApartIdle

\* catch (error) { throw this.handleWeatherError(error) }
Classify(error) ==
  /\ upstreamError' = error
  /\ thrown' = handleWeatherError(error)
  /\ UNCHANGED <<now, weatherCacheDuration, forecastCacheDuration, cache,
                 unswept, swept, req, keyed, server, client, samples, aggregated,
                 upstreamCurrent, normalized, user_cities, sqlite_sequence,
                 response>>

ErrNext == \E error \in AxiosErrors : Classify(error)

ErrSpec == ErrInit /\ [][ErrNext]_vars

(***************************************************************************)
(* formatCurrentWeather on payloads of every visibility.                   *)
(***************************************************************************)
\* the largest visibility the provider reports, in metres
MaxVisibility == 10000

\* data.visibility: absent, or a number of metres
Visibilities ==
  {Undefined} \cup {Num(m) : m \in {v \in 0..MaxVisibility : v % 250 = 0}}

VisInit ==
  /\ GatewayIdle
  /\ samples = <<>>
  /\ aggregated = <<>>
  /\ upstreamCurrent \in
       {[data EXCEPT !.visibility = visibility] :
          data \in {CurrentFull, CurrentSparse}, visibility \in Visibilities}
  /\ normalized = NoValue
  /\ upstreamError = NoValue
  /\ thrown = ""
  /\ user_cities = {}
  /\ sqlite_sequence = 0
  /\ response = NoValue
  /\ ClientIdle

\* return this.formatCurrentWeather(response.data)
FormatCurrent ==
  /\ normalized = NoValue
  /\ normalized' = formatCurrentWeather(upstreamCurrent)
  /\ UNCHANGED <<now, weatherCacheDuration, forecastCacheDuration, cache,
                 unswept, swept, req, keyed, server, client, samples, aggregated,
                 upstreamCurrent, upstreamError, thrown, user_cities,
                 sqlite_sequence, response>>

VisNext == FormatCurrent

VisSpec == VisInit /\ [][VisNext]_vars

(***************************************************************************)
(* The city registry: the table user_cities (UNIQUE(name, country), id     *)
(* AUTOINCREMENT, added_at DEFAULT CURRENT_TIMESTAMP) and the cities       *)
(* router in front of it.  Here one unit of the clock is one step of       *)
(* CURRENT_TIMESTAMP.                                                      *)
(***************************************************************************)
\* ids run up to MaxCityId
MaxCityId == 6

\* a string with white space around the text s
Padded(s) == <<"padded", s>>

IsString(v) == Len(v) = 2 /\ v[1] \in {"string", "padded"}

\* String.prototype.trim
trim(v) == Str(v[2])

\* String.prototype.toUpperCase, on the country codes in use
toUpperCase(v) ==
  Str(CASE v[2] = "gb" -> "GB"
        [] v[2] = "ca" -> "CA"
        [] OTHER -> v[2])

\* the length of a string without white space
length(v) == Len(v[2])

\* parseFloat of a JSON value
parseFloat(v) == IF IsNum(v) THEN v ELSE NaN

\* the statement ran into UNIQUE(name, country)
UniqueConstraintFailed ==
  "SQLITE_CONSTRAINT: UNIQUE constraint failed: user_cities.name, user_cities.country"

\* error.message.includes('UNIQUE constraint failed')
IncludesUniqueConstraintFailed(message) == message = UniqueConstraintFailed

\* the row an INSERT makes: the id follows the largest id ever held
NewCity(seq, name, country, lat, lon, t) ==
  [id |-> seq + 1, name |-> name, country |-> country, lat |-> lat, lon |-> lon,
   added_at |-> datetimeNow(t)]

\* a mutant of addUserCity: the table has no UNIQUE(name, country)
addUserCity_noConstraint(rows, seq, name, country, lat, lon, t) ==
  [err |-> "",
   rows |-> rows \cup {NewCity(seq, name, country, lat, lon, t)},
   seq |-> seq + 1,
   city |-> [id |-> seq + 1, name |-> name, country |-> country,
             lat |-> lat, lon |-> lon]]

\* INSERT INTO user_cities (name, country, lat, lon) VALUES (?, ?, ?, ?):
\* rejects with the error of the statement, or resolves with the new city
addUserCity(rows, seq, name, country, lat, lon, t) ==
  IF \E row \in rows : row.name = name /\ row.country = country
    THEN [err |-> UniqueConstraintFailed, rows |-> rows, seq |-> seq,
          city |-> NoValue]
    ELSE [err |-> "",
          rows |-> rows \cup {NewCity(seq, name, country, lat, lon, t)},
          seq |-> seq + 1,
          city |-> [id |-> seq + 1, name |-> name, country |-> country,
                    lat |-> lat, lon |-> lon]]

\* a mutant of removeUserCity: DELETE FROM user_cities WHERE id <= ?
removeUserCity_upTo(rows, id) ==
  [rows |-> {row \in rows : row.id > id},
   changes |-> Cardinality({row \in rows : row.id <= id})]

\* DELETE FROM user_cities WHERE id = ?: resolves with this.changes
removeUserCity(rows, id) ==
  [rows |-> {row \in rows : row.id # id},
   changes |-> Cardinality({row \in rows : row.id = id})]

\* SELECT * FROM user_cities ORDER BY added_at DESC: the rows, latest added_at
\* first; the statement names no second key, so rows with one added_at come
\* in any order the engine chooses
RECURSIVE getUserCities(_)
getUserCities(rows) ==
  IF rows = {} THEN {<<>>}
  ELSE LET latest == {row \in rows :
                        \A other \in rows :
                          TextLessEq(other.added_at, row.added_at)}
       IN UNION {{<<row>> \o rest : rest \in getUserCities(rows \ {row})} :
                 row \in latest}

\* coordinates in thousandths of a degree, to the nearest
defaultCities ==
  <<[name |-> Str("New York"), country |-> Str("US"), lat |-> Num(40713),
     lon |-> Num(-74006)],
    [name |-> Str("London"), country |-> Str("GB"), lat |-> Num(51507),
     lon |-> Num(-128)],
    [name |-> Str("Tokyo"), country |-> Str("JP"), lat |-> Num(35676),
     lon |-> Num(139650)],
    [name |-> Str("Sydney"), country |-> Str("AU"), lat |-> Num(-33869),
     lon |-> Num(151209)]>>

\* INSERT OR IGNORE of each city of the list, in order
RECURSIVE insertDefaultCities(_, _, _, _)
insertDefaultCities(rows, seq, list, t) ==
  IF list = <<>> THEN [rows |-> rows, seq |-> seq]
  ELSE LET city == Head(list)
           added == addUserCity(rows, seq, city.name, city.country, city.lat,
                                city.lon, t)
       IN insertDefaultCities(added.rows, added.seq, Tail(list), t)

\* the readings of the clock
CityInstants == {600, 601}

\* bodies of POST /: name, country, lat, lon
CityNames == {Undefined, Num(7), Str("London"), Padded("London"), Str("Paris")}

CityCountries == {Str("GB"), Str("gb"), Padded("CA"), Str("G")}

CityLatitudes == {Undefined, Num(51507), Num(91000)}

CityLongitudes == {Num(-128)}

\* the id parameter of DELETE /:id after parseInt
CityIds == {NaN, Num(0), Num(2), Num(5), Num(6)}

CityInit ==
  /\ now = 600
  /\ weatherCacheDuration = DefaultWeatherCacheDuration
  /\ forecastCacheDuration = DefaultForecastCacheDuration
  /\ cache = {}
  /\ unswept = {}
  /\ swept = FALSE
  /\ req = [r \in Requests |-> Idle]
  /\ keyed = {}
  /\ samples = <<>>
  /\ aggregated = <<>>
  /\ upstreamCurrent = NoValue
  /\ normalized = NoValue
  /\ upstreamError = NoValue
  /\ thrown = ""
  /\ user_cities = insertDefaultCities({}, 0, defaultCities, 600).rows
  /\ sqlite_sequence = insertDefaultCities({}, 0, defaultCities, 600).seq
  /\ response = NoValue
  /\ ClientIdle

\* res.status(...).json(...) of the route, with what the route handed to the
\* registry (called) on the way
Respond(route, body, status, error, called, data) ==
  [route |-> route, request |-> Obj(body), status |-> status, error |-> error,
   called |-> called, data |-> data]

\* router.post('/'); located: weatherService.getCurrentWeather(latitude,
\* longitude) has returned a payload (it writes nothing)
PostCity(body, located) ==
  /\ sqlite_sequence < MaxCityId
  /\ LET name == body.name
         country == body.country
         latitude == parseFloat(body.lat)
         longitude == parseFloat(body.lon)
         Reply(status, error) ==
           /\ response' = Respond("POST /", body, status, error, Undefined,
                                   Undefined)
           /\ UNCHANGED <<user_cities, sqlite_sequence>>
     IN IF \/ ~ Truthy(name) \/ ~ Truthy(country)
           \/ body.lat = Undefined \/ body.lon = Undefined
          THEN Reply(400, "Missing required fields")
        ELSE IF latitude = NaN \/ longitude = NaN
          THEN Reply(400, "Invalid coordinates")
        ELSE IF latitude[2] < -90000 \/ latitude[2] > 90000
          THEN Reply(400, "Invalid latitude")
        ELSE IF longitude[2] < -180000 \/ longitude[2] > 180000
          THEN Reply(400, "Invalid longitude")
        ELSE IF ~ IsString(name)
          THEN Reply(500, "Failed to add city")
        ELSE IF length(trim(name)) < 1 \/ length(trim(name)) > 100
          THEN Reply(400, "Invalid name")
        ELSE IF ~ IsString(country)
          THEN Reply(500, "Failed to add city")
        ELSE IF length(trim(country)) < 2 \/ length(trim(country)) > 3
          THEN Reply(400, "Invalid country")
        ELSE IF ~ located
          THEN Reply(400, "Invalid location")
        ELSE LET called == [name |-> trim(name),
                            country |-> toUpperCase(trim(country)),
                            lat |-> latitude, lon |-> longitude]
                 added == addUserCity(user_cities, sqlite_sequence, called.name,
                                      called.country, called.lat, called.lon, now)
             IN /\ user_cities' = added.rows
                /\ sqlite_sequence' = added.seq
                /\ response' =
                     IF added.err = ""
                       THEN Respond("POST /", body, 201, "", Obj(called),
                                    Obj(added.city))
                     ELSE IF IncludesUniqueConstraintFailed(added.err)
                       THEN Respond("POST /", body, 409, "City already exists",
                                    Obj(called), Undefined)
                     ELSE Respond("POST /", body, 500, "Failed to add city",
                                  Obj(called), Undefined)
  /\ UNCHANGED <<now, weatherCacheDuration, forecastCacheDuration, cache,
                 unswept, swept, req, keyed, server, client, samples, aggregated,
                 upstreamCurrent, normalized, upstreamError, thrown>>

\* router.delete('/:id'); cityId: parseInt(id)
DeleteCity(cityId) ==
  /\ IF cityId = NaN \/ cityId[2] < 1
       THEN /\ response' = Respond("DELETE /:id", [id |-> cityId], 400,
                                   "Invalid city ID", Undefined, Undefined)
            /\ user_cities' = user_cities
       ELSE LET removed == removeUserCity(user_cities, cityId[2])
            IN /\ user_cities' = removed.rows
               /\ response' =
                    IF removed.changes = 0
                      THEN Respond("DELETE /:id", [id |-> cityId], 404,
                                   "City not found", Obj([id |-> cityId]),
                                   Obj([changes |-> Num(removed.changes)]))
                      ELSE Respond("DELETE /:id", [id |-> cityId], 200, "",
                                   Obj([id |-> cityId]),
                                   Obj([changes |-> Num(removed.changes)]))
  /\ UNCHANGED <<now, weatherCacheDuration, forecastCacheDuration, cache,
                 unswept, swept, req, keyed, server, client, samples, aggregated,
                 upstreamCurrent, normalized, upstreamError, thrown,
                 sqlite_sequence>>

\* a JSON array
Arr(a) == <<"array", a>>

\* router.get('/')
GetCities ==
  /\ \E listed \in getUserCities(user_cities) :
       response' = [route |-> "GET /", request |-> Undefined, status |-> 200,
                    error |-> "", called |-> Undefined, data |-> Arr(listed)]
  /\ UNCHANGED <<now, weatherCacheDuration, forecastCacheDuration, cache,
                 unswept, swept, req, keyed, server, client, samples, aggregated,
                 upstreamCurrent, normalized, upstreamError, thrown,
                 user_cities, sqlite_sequence>>

\* the process starts again on the same database file: initializeDatabase
Restart ==
  /\ LET inserted == insertDefaultCities(user_cities, sqlite_sequence,
                                         defaultCities, now)
     IN /\ inserted.seq <= MaxCityId
        /\ user_cities' = inserted.rows
        /\ sqlite_sequence' = inserted.seq
  /\ response' = NoValue
  /\ UNCHANGED <<now, weatherCacheDuration, forecastCacheDuration, cache,
                 unswept, swept, req, keyed, server, client, samples, aggregated,
                 upstreamCurrent, normalized, upstreamError, thrown>>

CityNext ==
  \/ \E body \in {[name |-> name, country |-> country, lat |-> lat, lon |-> lon] :
                     name \in CityNames, country \in CityCountries,
                     lat \in CityLatitudes, lon \in CityLongitudes},
        located \in BOOLEAN :
       PostCity(body, located)
  \/ \E cityId \in CityIds : DeleteCity(cityId)
  \/ Restart
  \/ \E t \in CityInstants : Tick(t)

CitySpec == CityInit /\ [][CityNext]_vars

\* the registry under adds that pass every check of the route, removals and
\* listings
ListBodies ==
  {[name |-> name, country |-> country, lat |-> Num(51507), lon |-> Num(-128)] :
     name \in {Str("London"), Str("Paris")},
     country \in {Str("GB"), Padded("CA")}}

\* listings are followed while the ids run up to MaxListed
MaxListed == 5

ListNext ==
  \/ \E body \in ListBodies : sqlite_sequence < MaxListed /\ PostCity(body, TRUE)
  \/ \E cityId \in CityIds : DeleteCity(cityId)
  \/ GetCities
  \/ \E t \in CityInstants : Tick(t)

ListSpec == CityInit /\ [][ListNext]_vars

(***************************************************************************)
(* The weather router in front of the gateway, and the process around it:  *)
(* each behaviour follows one request from its arrival (status 0) to the   *)
(* response and to the usage log written when the response has finished.   *)
(***************************************************************************)
\* isNaN of a JSON value; the strings in use hold no numeral
isNaN(v) == v \in {Undefined, NaN} \/ (IsString(v) /\ trim(v) # Str(""))

\* the routes with :lat/:lon, the gateway operation of each and the error of
\* its catch
WeatherRoutes ==
  {[route |-> "GET /current/:lat/:lon", op |-> "getCurrentWeather",
    failed |-> "Failed to fetch weather data"],
   [route |-> "GET /forecast/:lat/:lon", op |-> "getForecast",
    failed |-> "Failed to fetch forecast data"],
   [route |-> "GET /complete/:lat/:lon", op |-> "getCompleteWeatherData",
    failed |-> "Failed to fetch complete weather data"]}

\* req.params.lat, req.params.lon
RouteCoordinates ==
  [lat |-> {Str("abc"), Num(-90001), Num(-90000), Num(0), Num(90000), Num(90001)},
   lon |-> {Str("abc"), Num(-180001), Num(-180000), Num(180000), Num(180001)}]

\* cities.length > 10
BatchLimit == 10

\* batches run up to MaxCities cities
MaxCities == 11

\* the i-th city of a batch
BatchCity(i) == [id |-> Num(i), lat |-> Num(51507), lon |-> Num(-128 - i)]

\* req.body.cities: no array, or an array of cities of which at most one is
\* out of the ordinary
BatchBodies ==
  LET Odd == {[id |-> Num(77), lat |-> lat, lon |-> lon] :
                lat \in {Undefined, Str("abc"), Num(0), Num(90001)},
                lon \in {Undefined, Num(0)}}
            \cup {[id |-> Num(77), lat |-> Num(-33869), lon |-> Num(180001)]}
  IN {Undefined}
       \cup {Arr([i \in 1..n |-> BatchCity(i)]) : n \in 0..MaxCities}
       \cup {Arr([i \in 1..n |-> IF i = k THEN odd ELSE BatchCity(i)]) :
               n \in 1..MaxCities, k \in {1, 2, BatchLimit}, odd \in Odd}

RouteInit ==
  /\ GatewayIdle
  /\ samples = <<>>
  /\ aggregated = <<>>
  /\ upstreamCurrent = NoValue
  /\ normalized = NoValue
  /\ upstreamError = NoValue
  /\ thrown = ""
  /\ user_cities = {}
  /\ sqlite_sequence = 0
  /\ \/ \E r \in WeatherRoutes, lat \in RouteCoordinates.lat,
           lon \in RouteCoordinates.lon :
          response = Respond(r.route, [lat |-> lat, lon |-> lon], 0, "",
                             Arr(<<>>), Undefined)
     \/ \E body \in BatchBodies :
          response = Respond("POST /batch", [cities |-> body], 0, "",
                             Arr(<<>>), Undefined)
  /\ ClientIdle

\* cities.map(async (city) => { try { ... getCompleteWeatherData(city.lat,
\* city.lon) ... } catch (error) { ... } }) and Promise.all of it: for each
\* city in order the call made and the result it settles with; failing: the
\* positions whose call rejects
weatherPromises(list, failing) ==
  [i \in 1..Len(list) |->
     [call |-> [op |-> "getCompleteWeatherData", lat |-> list[i].lat,
                lon |-> list[i].lon, fulfilled |-> i \notin failing],
      result |->
        IF i \notin failing
          THEN [success |-> TRUE, cityId |-> list[i].id,
                data |-> Obj([lat |-> list[i].lat, lon |-> list[i].lon])]
          ELSE [success |-> FALSE, cityId |-> list[i].id,
                error |-> handleWeatherError([status |-> 0,
                                              code |-> "ECONNABORTED",
                                              message |-> ""])]]]

\* router.get('/current/:lat/:lon'), router.get('/forecast/:lat/:lon'),
\* router.get('/complete/:lat/:lon') and logUsage; fulfilled: the gateway call
\* resolves; logged: the INSERT of logApiUsage succeeds (when it fails the
\* error, which no callback and no listener takes, is an uncaught exception
\* and its handler calls gracefulShutdown)
GetWeather(fulfilled, logged) ==
  /\ server = "listening"
  /\ response.status = 0
  /\ \E r \in WeatherRoutes :
       /\ response.route = r.route
       /\ LET params == response.request[2]
              latitude == parseFloat(params.lat)
              longitude == parseFloat(params.lon)
              Reply(status, error, called, data) ==
                response' = Respond(r.route, params, status, error, called, data)
              call == [op |-> r.op, lat |-> latitude, lon |-> longitude,
                       fulfilled |-> fulfilled]
          IN IF latitude = NaN \/ longitude = NaN
               THEN Reply(400, "Invalid coordinates", Arr(<<>>), Undefined)
             ELSE IF latitude[2] < -90000 \/ latitude[2] > 90000
               THEN Reply(400, "Invalid latitude", Arr(<<>>), Undefined)
             ELSE IF longitude[2] < -180000 \/ longitude[2] > 180000
               THEN Reply(400, "Invalid longitude", Arr(<<>>), Undefined)
             ELSE IF fulfilled
               THEN Reply(200, "", Arr(<<call>>),
                          Obj([lat |-> latitude, lon |-> longitude]))
             ELSE Reply(500, r.failed, Arr(<<call>>), Undefined)
  /\ server' = IF logged THEN server ELSE "closing"
  /\ UNCHANGED <<now, weatherCacheDuration, forecastCacheDuration, cache,
                 unswept, swept, req, keyed, samples, aggregated,
                 upstreamCurrent, normalized, upstreamError, thrown,
                 user_cities, sqlite_sequence, client>>

\* router.post('/batch') and logUsage
PostBatch(failing, logged) ==
  /\ server = "listening"
  /\ response.status = 0
  /\ response.route = "POST /batch"
  /\ LET body == response.request[2]
         Reply(status, error, called, data) ==
           response' = Respond("POST /batch", body, status, error, called, data)
     IN IF body.cities = Undefined
          THEN Reply(400, "Invalid request", Arr(<<>>), Undefined)
        ELSE LET list == body.cities[2]
                 settled == weatherPromises(list, failing)
             IN IF Len(list) = 0
                  THEN Reply(400, "Invalid request", Arr(<<>>), Undefined)
                ELSE IF Len(list) > BatchLimit
                  THEN Reply(400, "Too many cities", Arr(<<>>), Undefined)
                ELSE IF \E i \in 1..Len(list) :
                          \/ ~ Truthy(list[i].lat) \/ ~ Truthy(list[i].lon)
                          \/ isNaN(list[i].lat) \/ isNaN(list[i].lon)
                  THEN Reply(400, "Invalid city data", Arr(<<>>), Undefined)
                ELSE Reply(200, "",
                           Arr([i \in 1..Len(list) |-> settled[i].call]),
                           Arr([i \in 1..Len(list) |-> settled[i].result]))
  /\ server' = IF logged THEN server ELSE "closing"
  /\ UNCHANGED <<now, weatherCacheDuration, forecastCacheDuration, cache,
                 unswept, swept, req, keyed, samples, aggregated,
                 upstreamCurrent, normalized, upstreamError, thrown,
                 user_cities, sqlite_sequence, client>>

\* the hourly setInterval of the gateway when the DELETE of cleanExpiredCache
\* fails: the statement has no callback and the database no 'error' listener,
\* so the error is an uncaught exception and its handler calls
\* gracefulShutdown
SweepFails ==
  /\ server = "listening"
  /\ server' = "closing"
  /\ UNCHANGED <<now, weatherCacheDuration, forecastCacheDuration, cache,
                 unswept, swept, req, keyed, samples, aggregated,
                 upstreamCurrent, normalized, upstreamError, thrown,
                 user_cities, sqlite_sequence, response, client>>

\* gracefulShutdown: server.close calls back (code 0), or the timer of ten
\* seconds comes first (code 1): process.exit(code)
Exit(code) ==
  /\ server = "closing"
  /\ server' = IF code = 0 THEN "exit 0" ELSE "exit 1"
  /\ UNCHANGED <<now, weatherCacheDuration, forecastCacheDuration, cache,
                 unswept, swept, req, keyed, samples, aggregated,
                 upstreamCurrent, normalized, upstreamError, thrown,
                 user_cities, sqlite_sequence, response, client>>

RouteNext ==
  \/ \E fulfilled \in BOOLEAN, logged \in BOOLEAN : GetWeather(fulfilled, logged)
  \/ \E failing \in SUBSET {1, 2, BatchLimit}, logged \in BOOLEAN :
       PostBatch(failing, logged)
  \/ SweepFails
  \/ \E code \in {0, 1} : Exit(code)

RouteSpec == RouteInit /\ [][RouteNext]_vars

(***************************************************************************)
(* The dashboard: App with its list of cities and the selected city.       *)
(***************************************************************************)
\* the ids of the cities run up to MaxShown
MaxShown == 5

\* the lists useCitiesWithWeather can deliver: cities of distinct ids
ShownLists ==
  {list \in UNION {[1..n -> 1..MaxShown] : n \in 0..MaxShown} :
     \A i \in DOMAIN list, j \in DOMAIN list : list[i] = list[j] => i = j}

\* a list without the city of an id: cities.filter(city => city.id !== id)
Without(list, id) ==
  LET Keep(cityId) == Num(cityId) # id
  IN SelectSeq(list, Keep)

\* the effect on [cities, selectedCityId]: the selection after it
selectFirst(list, selected) ==
  IF Len(list) > 0 /\ ~ Truthy(selected) THEN Num(list[1]) ELSE selected

\* the cities have loaded and the effect has run
AppInit ==
  /\ GatewayIdle
  /\ samples = <<>>
  /\ aggregated = <<>>
  /\ upstreamCurrent = NoValue
  /\ normalized = NoValue
  /\ upstreamError = NoValue
  /\ thrown = ""
  /\ user_cities = {}
  /\ sqlite_sequence = 0
  /\ response = NoValue
  /\ server = "listening"
  /\ cities \in ShownLists
  /\ selectedCityId = selectFirst(cities, Null)
  /\ searchQuery = Str("")
  /\ searchTimeout = Null
  /\ inFlight = <<>>
  /\ searchResults = <<"array", <<>>>>
  /\ searched = Null

\* handleCitySelect, on a click on a city of the list
handleCitySelect(cityId) ==
  /\ \E i \in DOMAIN cities : cities[i] = cityId
  /\ selectedCityId' = Num(cityId)
  /\ UNCHANGED <<now, weatherCacheDuration, forecastCacheDuration, cache,
                 unswept, swept, req, keyed, samples, aggregated,
                 upstreamCurrent, normalized, upstreamError, thrown,
                 user_cities, sqlite_sequence, response, server, cities,
                 searchQuery, searchTimeout, inFlight, searchResults, searched>>

\* CityList.handleDeleteCity of a city of the list, confirmed and removed by
\* the server, then App.handleDeleteCity on the list as rendered, the effect
\* on that list, the refetched list and the effect on it
handleDeleteCity(cityId) ==
  /\ \E i \in DOMAIN cities : cities[i] = cityId
  /\ LET remainingCities == Without(cities, selectedCityId)
         set == IF Len(remainingCities) > 0
                  THEN Num(remainingCities[1]) ELSE Null
         rendered == selectFirst(cities, set)
     IN /\ cities' = Without(cities, Num(cityId))
        /\ selectedCityId' = selectFirst(cities', rendered)
  /\ UNCHANGED <<now, weatherCacheDuration, forecastCacheDuration, cache,
                 unswept, swept, req, keyed, samples, aggregated,
                 upstreamCurrent, normalized, upstreamError, thrown,
                 user_cities, sqlite_sequence, response, server,
                 searchQuery, searchTimeout, inFlight, searchResults, searched>>

AppNext ==
  \/ \E cityId \in 1..MaxShown : handleCitySelect(cityId)
  \/ \E cityId \in 1..MaxShown : handleDeleteCity(cityId)

AppSpec == AppInit /\ [][AppNext]_vars

(***************************************************************************)
(* The add-city dialog: the debounced search of AddCityModal.              *)
(***************************************************************************)
\* at most MaxInFlight searches await their response
MaxInFlight == 2

\* what the user can have in the search field
SearchQueries == {Str(""), Str("l"), Str("lo"), Padded("lo"), Str("lon")}

\* response.data of weatherAPI.searchCities for a query
SearchData(query) ==
  IF query = Str("lo") THEN Arr(<<Str("London"), Str("Los Angeles")>>)
  ELSE IF query = Str("lon") THEN Arr(<<Str("London")>>)
  ELSE Arr(<<>>)

\* the dialog opens: the state useState gives it
DialogInit ==
  /\ GatewayIdle
  /\ ApartIdle

\* a keystroke, setSearchQuery(query), and the effect on [searchQuery]: the
\* pending timer is cleared, and a new one is set or the results are emptied
setSearchQuery(query) ==
  /\ query # searchQuery
  /\ searchQuery' = query
  /\ IF length(trim(query)) >= 2
       THEN /\ searchTimeout' = Obj([query |-> trim(query)])
            /\ UNCHANGED searchResults
       ELSE /\ searchTimeout' = Null
            /\ searchResults' = Arr(<<>>)
  /\ UNCHANGED <<now, weatherCacheDuration, forecastCacheDuration, cache,
                 unswept, swept, req, keyed, samples, aggregated,
                 upstreamCurrent, normalized, upstreamError, thrown,
                 user_cities, sqlite_sequence, response, server, cities,
                 selectedCityId, inFlight, searched>>

\* the timer fires: handleSearch(query) up to its await
handleSearch ==
  /\ searchTimeout # Null
  /\ Len(inFlight) < MaxInFlight
  /\ inFlight' = Append(inFlight, searchTimeout[2].query)
  /\ searched' = searchTimeout[2].query
  /\ searchTimeout' = Null
  /\ UNCHANGED <<now, weatherCacheDuration, forecastCacheDuration, cache,
                 unswept, swept, req, keyed, samples, aggregated,
                 upstreamCurrent, normalized, upstreamError, thrown,
                 user_cities, sqlite_sequence, response, server, cities,
                 selectedCityId, searchQuery, searchResults>>

\* the response to the i-th search awaited arrives (responses come in any
\* order): handleSearch from its await on, setSearchResults(response.data)
setSearchResults(i) ==
  /\ i \in DOMAIN inFlight
  /\ searchResults' = SearchData(inFlight[i])
  /\ inFlight' = [k \in 1..(Len(inFlight) - 1) |->
                    IF k < i THEN inFlight[k] ELSE inFlight[k + 1]]
  /\ UNCHANGED <<now, weatherCacheDuration, forecastCacheDuration, cache,
                 unswept, swept, req, keyed, samples, aggregated,
                 upstreamCurrent, normalized, upstreamError, thrown,
                 user_cities, sqlite_sequence, response, server, cities,
                 selectedCityId, searchQuery, searchTimeout, searched>>

DialogNext ==
  \/ \E query \in SearchQueries : setSearchQuery(query)
  \/ handleSearch
  \/ \E i \in 1..MaxInFlight : setSearchResults(i)

DialogSpec == DialogInit /\ [][DialogNext]_vars

(***************************************************************************)
(* Properties.                                                             *)
(***************************************************************************)
\* the rows of one key
RowsOf(rows, cityKey) == {row \in rows : row.city_key = cityKey}

\* a row has not reached its instant of expiry
Live(row, t) == t < InstantOf(row.expires_at)

\* step: the call r of getCompleteWeatherData settles after a miss
CompleteSettles(r) ==
  /\ req[r].pc = "fetch"
  /\ req[r].op = "complete"
  /\ req'[r].pc # "fetch"

\* C1: a row written with expiry E (and not overwritten since) is returned
\* by the lookup at time t exactly when t < E, swept or not, same day or not.
C1_LookupHonoursExpiry ==
  \A row \in unswept :
    (row \in getCachedWeather(cache, row.city_key, now)) <=> Live(row, now)

WholeRow(row) ==
  \E data \in CurrentSamples :
    /\ row.current_weather = StringifyCurrent(formatCurrentWeather(data))
    /\ row.forecast_data = StringifyForecast(formatForecast(ForecastOf(data)))

\* C3: when either upstream call of getCompleteWeatherData fails, the call
\* fails and the table is left as it was; no row ever holds one half only.
C3_FailureWritesNothing ==
  [][/\ \A row \in cache' : WholeRow(row)
     /\ \A r \in DOMAIN req :
          (CompleteSettles(r) /\ req'[r].upstream # <<"ok", "ok">>) =>
            /\ req'[r].pc = "failed"
            /\ req'[r].message # ""
            /\ cache' = cache]_vars

C3_Witness ==
  \E r \in DOMAIN req :
    /\ req[r].pc = "failed"
    /\ req[r].op = "complete"
    /\ req[r].upstream = <<"ok", "error">>
    /\ cache # {}

\* C4: no step of getCurrentWeather, getForecast or searchCities changes the
\* table, and searchCities never looks a key up.
C4_OnlyCompleteWrites ==
  [][\A r \in DOMAIN req :
       /\ (req'[r] # req[r]
             /\ (req[r].op \in {"current", "forecast", "search"}
                   \/ req'[r].op \in {"current", "forecast", "search"}))
            => cache' = cache
       /\ req'[r].op = "search" => ~ req'[r].looked]_vars

C4_Witness ==
  /\ cache # {}
  /\ \E r \in DOMAIN req :
       /\ req[r].op = "current"
       /\ req[r].pc = "done"
       /\ ~ req[r].hit
       /\ RowsOf(cache, req[r].cacheKey) = {}

\* C5: when the key of the request has a live row, each of the three methods
\* returns the stored part(s) of that row and makes no upstream call.
C5_LiveEntryIsServed ==
  [][\A r \in DOMAIN req :
       \A row \in cache :
         (/\ req[r].pc = "idle"
          /\ req'[r].op \in {"current", "forecast", "complete"}
          /\ row.city_key = req'[r].cacheKey
          /\ Live(row, now)) =>
            /\ req'[r].pc = "done"
            /\ req'[r].calls = 0
            /\ req'[r].result =
                 CASE req'[r].op = "current" -> JSONParse(row.current_weather)
                   [] req'[r].op = "forecast" -> JSONParse(row.forecast_data)
                   [] OTHER ->
                        [current |-> JSONParse(row.current_weather),
                         forecast |-> JSONParse(row.forecast_data)]]_vars

C5_Witness ==
  \E r \in DOMAIN req :
    /\ req[r].pc = "done"
    /\ req[r].op = "forecast"
    /\ req[r].hit
    /\ req[r].calls = 0
    /\ \E row \in RowsOf(cache, req[r].cacheKey) :
         /\ Live(row, now)
         /\ req[r].result = JSONParse(row.forecast_data)

\* C6: the table never holds two rows of one key; a write for a key that has
\* a row leaves the new row as the only row of that key.
C6_OneRowPerKey ==
  /\ \A row \in cache : Cardinality(RowsOf(cache, row.city_key)) = 1
  /\ \A row \in unswept : Cardinality(RowsOf(unswept, row.city_key)) = 1

C6_Witness ==
  \E r \in DOMAIN req :
    /\ req[r].pc = "done"
    /\ req[r].replaced = 1
    /\ \E row \in RowsOf(cache, req[r].cacheKey) :
         /\ row.cached_at = datetimeNow(now)
         /\ row.current_weather = StringifyCurrent(req[r].result.current)

\* C7: right after getCompleteWeatherData has cached a pair, the same call
\* for the same key returns payloads identical to the pair the first call
\* returned.
C7_RoundTripIdentical ==
  [][\A r \in DOMAIN req :
       (CompleteSettles(r) /\ req'[r].pc = "done") =>
         /\ getCachedWeather(cache', req[r].cacheKey, now') # {}
         /\ \A row \in getCachedWeather(cache', req[r].cacheKey, now') :
              completeFromCache(row) = req'[r].result]_vars

\* the number a coordinate rounds to, in hundredths
Round2(x) == IF x < 0 THEN 0 - ((Abs(x) + 5) \div 10) ELSE (x + 5) \div 10

\* C8: two coordinate pairs whose latitudes and longitudes round to the same
\* 2-decimal values have the same key.
C8_SameRoundingSameKey ==
  \A a \in keyed, b \in keyed :
    (Round2(a.lat) = Round2(b.lat) /\ Round2(a.lon) = Round2(b.lon))
      => a.key = b.key

\* C9: after a sweep at time t the table holds exactly the rows with
\* expiresAt > t: every row with expiresAt <= t is gone, no other is.
C9_SweepDeletesExactlyExpired ==
  swept => cache = {row \in unswept : Live(row, now)}

\* C10: every lookup gives what it would give had no sweep ever run.
C10_SweepNeverChangesReads ==
  \A lat \in Latitudes, lon \in Longitudes :
    getCachedWeather(cache, generateCacheKey(lat, lon), now) =
      getCachedWeather(unswept, generateCacheKey(lat, lon), now)

C10_Witness ==
  \E r \in DOMAIN req :
    /\ req[r].looked
    /\ req[r].pc = "fetch"
    /\ RowsOf(unswept, req[r].cacheKey) # {}
    /\ RowsOf(cache, req[r].cacheKey) = {}

\* the calls r and o of getCompleteWeatherData have both missed on one key
\* and both returned
BothMissed(rq, r, o) ==
  /\ r # o
  /\ rq[r].op = "complete" /\ rq[o].op = "complete"
  /\ rq[r].pc = "done" /\ rq[o].pc = "done"
  /\ ~ rq[r].hit /\ ~ rq[o].hit
  /\ rq[r].cacheKey = rq[o].cacheKey

\* the row of the table that holds what the call q returned
HoldsResultOf(row, q) ==
  /\ row.city_key = q.cacheKey
  /\ row.current_weather = StringifyCurrent(q.result.current)
  /\ row.forecast_data = StringifyForecast(q.result.forecast)

\* C11: two concurrent calls that miss on one key both return what they
\* fetched; each write leaves, as the only row of the key, the writer's
\* current part, forecast part and expiry; so when both have returned the
\* key has one row, and it is whole from the call that wrote last.
C11_LastWriteWins ==
  [][/\ \A r \in DOMAIN req :
          (CompleteSettles(r) /\ req'[r].pc = "done") =>
            /\ \E data \in CurrentSamples :
                 req'[r].result =
                   [current |-> formatCurrentWeather(data),
                    forecast |-> formatForecast(ForecastOf(data))]
            /\ \A o \in DOMAIN req \ {r} : req'[o] = req[o]
            /\ Cardinality(RowsOf(cache', req[r].cacheKey)) = 1
            /\ \A row \in RowsOf(cache', req[r].cacheKey) :
                 /\ HoldsResultOf(row, req'[r])
                 /\ row.expires_at = toISOString(now + weatherCacheDuration)
     /\ \A r \in DOMAIN req, o \in DOMAIN req :
          (BothMissed(req', r, o) /\ req'[r].replaced = 1) =>
            /\ req'[o].replaced = 0
            /\ Cardinality(RowsOf(cache', req'[r].cacheKey)) = 1
            /\ \A row \in RowsOf(cache', req'[r].cacheKey) :
                 HoldsResultOf(row, req'[r])
     /\ \A r \in DOMAIN req, o \in DOMAIN req :
          BothMissed(req', r, o) =>
            (req'[r].replaced = 1 \/ req'[o].replaced = 1)]_vars

C11_Witness ==
  \E r \in DOMAIN req, o \in DOMAIN req :
    /\ BothMissed(req, r, o)
    /\ req[r].lat # req[o].lat
    /\ req[r].result # req[o].result
    /\ req[r].replaced = 1
    /\ now = 630
    /\ \E row \in RowsOf(cache, req[r].cacheKey) :
         /\ HoldsResultOf(row, req[r])
         /\ row.expires_at = toISOString(630 + weatherCacheDuration)

\* the positions of the samples that fall on the date d
SamplesOn(d) == {i \in 1..Len(samples) : dateKey(samples[i].dt) = d}

\* the dates of the samples
DatesSeen == {dateKey(samples[i].dt) : i \in 1..Len(samples)}

\* the position at which the date d is first met
FirstAt(d) == CHOOSE i \in SamplesOn(d) : \A j \in SamplesOn(d) : i <= j

\* the date of a day summary
DateOf(summary) == summary.date[2]

\* C12: formatForecast gives one day summary per distinct date among the
\* first five distinct dates met: min(5, number of distinct dates) summaries,
\* in the order in which their dates are first met, whatever the order of the
\* samples; the empty list gives the empty forecast.
C12_FirstFiveDatesInOrder ==
  /\ Len(aggregated) =
       IF Cardinality(DatesSeen) < 5 THEN Cardinality(DatesSeen) ELSE 5
  /\ \A i \in 1..Len(aggregated) :
       /\ DateOf(aggregated[i]) \in DatesSeen
       /\ \A j \in 1..Len(aggregated) :
            i < j => FirstAt(DateOf(aggregated[i])) < FirstAt(DateOf(aggregated[j]))
       /\ \A d \in DatesSeen :
            FirstAt(d) < FirstAt(DateOf(aggregated[i])) =>
              \E k \in 1..(i - 1) : DateOf(aggregated[k]) = d
  /\ samples = <<>> => aggregated = <<>>

C12_Witness ==
  /\ Cardinality(DatesSeen) = 6
  /\ Len(aggregated) = 5
  /\ dateKey(samples[1].dt) > dateKey(samples[2].dt)
  /\ dateKey(samples[3].dt) < dateKey(samples[2].dt)

\* the number of samples of the date d whose condition is c
CountOn(d, c) == Cardinality({i \in SamplesOn(d) : samples[i].weather0.main = c})

\* the conditions of the date d that no condition of that date outnumbers
Commonest(d) ==
  {c \in {samples[i].weather0.main : i \in SamplesOn(d)} :
     \A i \in SamplesOn(d) : CountOn(d, samples[i].weather0.main) <= CountOn(d, c)}

\* C13: when two or more conditions of a day are tied for the highest count,
\* the day's weather is the tied condition met first among the samples.
C13_TieGoesToFirstSeen ==
  \A k \in 1..Len(aggregated) :
    LET d == DateOf(aggregated[k])
        first == CHOOSE i \in SamplesOn(d) :
                   /\ samples[i].weather0.main \in Commonest(d)
                   /\ \A j \in SamplesOn(d) :
                        samples[j].weather0.main \in Commonest(d) => i <= j
    IN Cardinality(Commonest(d)) >= 2 =>
         aggregated[k].weather.main = samples[first].weather0.main

\* the entry of a day's weather list made of the sample at position i
WeatherOf(i) ==
  [main |-> samples[i].weather0.main,
   description |-> samples[i].weather0.description,
   icon |-> samples[i].weather0.icon,
   time |-> <<"isotime", samples[i].dt>>]

\* C14: the weather of a day summary is one of the samples of that day, no
\* condition of the day outnumbers its condition, and it is the earliest
\* sample of the day with that condition.
C14_WeatherIsEarliestOfCommonest ==
  \A k \in 1..Len(aggregated) :
    LET d == DateOf(aggregated[k])
    IN \E i \in SamplesOn(d) :
         /\ aggregated[k].weather = WeatherOf(i)
         /\ samples[i].weather0.main \in Commonest(d)
         /\ \A j \in SamplesOn(d) :
              samples[j].weather0.main = samples[i].weather0.main => i <= j

C14_Witness ==
  /\ Len(samples) = 3
  /\ samples[1].weather0.main = Str("Rain")
  /\ samples[2].weather0.main = Str("Clouds")
  /\ samples[3].weather0.main = Str("Clouds")
  /\ aggregated[1].weather = WeatherOf(2)

\* r is the integer nearest to sum / (n * scale)
Nearest(r, sum, n, scale) ==
  /\ 2 * (r * n * scale - sum) <= n * scale
  /\ 2 * (sum - r * n * scale) <= n * scale

\* the temperatures of the samples of the date d
TempsOn(d) == {samples[i].main.temp : i \in SamplesOn(d)}

\* the sum of the values f[i] over the positions in set
RECURSIVE SumOver(_, _)
SumOver(f, set) ==
  IF set = {} THEN 0
  ELSE LET i == CHOOSE x \in set : TRUE IN f[i] + SumOver(f, set \ {i})

\* C15: min, max and avg of a day summary are the integers nearest to the
\* least, the greatest and the mean of the temperatures of all the samples
\* of that date: min <= avg <= max, a day of one sample has min = max = avg,
\* and 10.2, 15.8, 12.0 give min 10, max 16, avg 13.
C15_TemperatureSummary ==
  \A k \in 1..Len(aggregated) :
    LET d == DateOf(aggregated[k])
        t == aggregated[k].temperature
        n == Cardinality(SamplesOn(d))
        lo == CHOOSE x \in TempsOn(d) : \A y \in TempsOn(d) : x <= y
        hi == CHOOSE x \in TempsOn(d) : \A y \in TempsOn(d) : x >= y
        sum == SumOver([i \in SamplesOn(d) |-> samples[i].main.temp], SamplesOn(d))
    IN /\ IsNum(t.min) /\ IsNum(t.max) /\ IsNum(t.avg)
       /\ Nearest(t.min[2], lo, 1, 10)
       /\ Nearest(t.max[2], hi, 1, 10)
       /\ Nearest(t.avg[2], sum, n, 10)
       /\ t.min[2] <= t.avg[2] /\ t.avg[2] <= t.max[2]
       /\ n = 1 => (t.min = t.max /\ t.max = t.avg)
       /\ [i \in 1..Len(samples) |-> samples[i].main.temp] = <<102, 158, 120>> =>
            t = [min |-> Num(10), max |-> Num(16), avg |-> Num(13)]

C15_Witness ==
  /\ [i \in 1..Len(samples) |-> samples[i].main.temp] = <<102, 158, 120>>
  /\ aggregated[1].temperature = [min |-> Num(10), max |-> Num(16), avg |-> Num(13)]

\* a value in tenths rounded half away from zero, and half to even
HalfAwayFromZero(v) ==
  IF v < 0 THEN 0 - ((Abs(v) + 5) \div 10) ELSE (v + 5) \div 10

HalfToEven(v) ==
  LET floor == v \div 10
  IN IF v % 10 < 5 THEN floor
     ELSE IF v % 10 > 5 THEN floor + 1
     ELSE IF floor % 2 = 0 THEN floor ELSE floor + 1

\* the temperatures that were rounded to make the state, each with the
\* integer it was rounded to
Roundings ==
  {<<upstreamCurrent.main.temp[2], normalized.temperature.current[2]>> :
     x \in IF normalized = NoValue THEN {} ELSE {1}}
    \cup UNION {LET d == DateOf(aggregated[k])
                    lo == CHOOSE x \in TempsOn(d) : \A y \in TempsOn(d) : x <= y
                    hi == CHOOSE x \in TempsOn(d) : \A y \in TempsOn(d) : x >= y
                IN {<<lo, aggregated[k].temperature.min[2]>>,
                    <<hi, aggregated[k].temperature.max[2]>>} :
                k \in 1..Len(aggregated)}

\* C16: temperatures are rounded by one rule, below zero as above, at the
\* exact halves too: half away from zero everywhere, or half to even
\* everywhere.
C16_OneRoundingRule ==
  \/ \A p \in Roundings : p[2] = HalfAwayFromZero(p[1])
  \/ \A p \in Roundings : p[2] = HalfToEven(p[1])

\* C17: wind speed is converted to km/h before it is rounded: the current
\* windSpeed is the integer nearest to 3.6 s (5.0 m/s gives 18), and the
\* windSpeed of a day is the integer nearest to the mean of the converted
\* speeds of its samples.
C17_WindConvertedBeforeRounding ==
  /\ (normalized # NoValue /\ IsObj(upstreamCurrent.wind)) =>
       LET s == upstreamCurrent.wind[2].speed[2]
           w == normalized.details.windSpeed
       IN /\ IsNum(w)
          /\ Nearest(w[2], 36 * s, 1, 100)
          /\ s = 50 => w = Num(18)
  /\ \A k \in 1..Len(aggregated) :
       LET d == DateOf(aggregated[k])
           w == aggregated[k].details.windSpeed
       IN (\A i \in SamplesOn(d) : IsObj(samples[i].wind)) =>
            /\ IsNum(w)
            /\ Nearest(w[2],
                       SumOver([i \in SamplesOn(d) |->
                                  36 * samples[i].wind[2].speed], SamplesOn(d)),
                       Cardinality(SamplesOn(d)), 100)

\* a day of 1.4 m/s and 1.0 m/s: 5.04 and 3.6 km/h, mean 4.32; the speeds
\* rounded one by one would be 5 and 4, mean 4.5
C17_Witness ==
  /\ Len(samples) = 2
  /\ samples[1].wind = Obj([speed |-> 14])
  /\ samples[2].wind = Obj([speed |-> 10])
  /\ aggregated[1].details.windSpeed = Num(4)
  /\ normalized.details.windSpeed = Num(4)

\* C18: every upstream failure with a status from 500 to 599 is surfaced as
\* "service temporarily unavailable".
C18_Every5xxIsUnavailable ==
  (upstreamError # NoValue /\ upstreamError.status \in 500..599) =>
    thrown = "Weather service temporarily unavailable. Please try again later."

\* the generic failure for an error, with the upstream message when there is one
GenericFailure(error) ==
  IF error.status # 0 /\ error.message # ""
    THEN {"Weather API error: " \o error.message}
    ELSE {"Weather API error: Unknown error",
          "Failed to fetch weather data. Please try again later."}

\* the conditions the taxonomy allows for an error (the statuses from 500 to
\* 599 are the matter of C18: here they may be anything of the taxonomy)
Classified(error) ==
  CASE error.status = 401 ->
         {"Invalid API key. Please check your OpenWeatherMap API key."}
    [] error.status = 404 ->
         {"Location not found. Please check the coordinates."}
    [] error.status = 429 ->
         {"API rate limit exceeded. Please try again later."}
    [] error.status \in 500..599 ->
         {"Weather service temporarily unavailable. Please try again later."}
           \cup GenericFailure(error)
    [] error.status = 0 /\ error.code = "ECONNABORTED" ->
         {"Request timeout. Please try again."}
    [] error.status = 0 /\ error.code \in {"ENOTFOUND", "EAI_AGAIN", "ECONNREFUSED",
                                          "ECONNRESET", "EHOSTUNREACH"} ->
         {"Unable to connect to weather service. Please check your internet connection."}
    [] OTHER -> GenericFailure(error)

\* C19: every upstream failure is mapped to the one condition of the taxonomy
\* that is its own: 401, 404, 429, a timeout, every failure of the DNS lookup
\* or of the connection to "unable to connect", anything else to the generic
\* failure with the upstream message when there is one.
C19_EveryFailureClassified ==
  upstreamError # NoValue => thrown \in Classified(upstreamError)

\* step: the route POST / has answered
Posted ==
  /\ response' # NoValue
  /\ response'.route = "POST /"
  /\ now' = now
  /\ <<response, user_cities>>' # <<response, user_cities>>

\* the rows of a name and a country
CitiesOf(rows, name, country) ==
  {row \in rows : row.name = name /\ row.country = country}

\* C20: an add that reaches the registry (the body is valid and the location
\* is known to the provider) and whose (name, country) is there fails with the
\* duplicate condition (409, not the failure of storage) and leaves the
\* registry as it was; an add of a pair that is not there, the same name with
\* another country too, succeeds with one new row; no two rows ever share
\* (name, country).
C20_DuplicateIsConflict ==
  [][/\ \A a \in user_cities', b \in user_cities' :
          (a.name = b.name /\ a.country = b.country) => a = b
     /\ (Posted /\ IsObj(response'.called)) =>
          LET name == response'.called[2].name
              country == response'.called[2].country
          IN IF CitiesOf(user_cities, name, country) # {}
               THEN /\ response'.status = 409
                    /\ response'.error = "City already exists"
                    /\ user_cities' = user_cities
               ELSE /\ response'.status = 201
                    /\ Cardinality(CitiesOf(user_cities', name, country)) = 1
                    /\ user_cities' \ CitiesOf(user_cities', name, country) =
                         user_cities]_vars

C20_Witness ==
  /\ response # NoValue
  /\ response.route = "POST /"
  /\ response.status = 409
  /\ response.called[2].name = Str("London")
  /\ CitiesOf(user_cities, Str("London"), Str("GB")) # {}
  /\ CitiesOf(user_cities, Str("London"), Str("CA")) # {}

\* step: the route DELETE /:id has answered
Deleted ==
  /\ response' # NoValue
  /\ response'.route = "DELETE /:id"
  /\ now' = now
  /\ <<response, user_cities>>' # <<response, user_cities>>

\* the rows of an id
RowsWithId(rows, id) == {row \in rows : row.id = id}

\* C21: a removal that reaches the registry removes exactly the row of the id
\* and reports one change when the row is there; when no row has the id it
\* reports no change, raises nothing, leaves the registry as it was, and the
\* route answers 404 "City not found".
C21_RemoveExactlyThatRow ==
  [][(Deleted /\ IsObj(response'.called)) =>
       LET id == response'.called[2].id[2]
       IN IF RowsWithId(user_cities, id) # {}
            THEN /\ response'.data = Obj([changes |-> Num(1)])
                 /\ response'.status = 200
                 /\ user_cities' = user_cities \ RowsWithId(user_cities, id)
                 /\ Cardinality(user_cities') = Cardinality(user_cities) - 1
            ELSE /\ response'.data = Obj([changes |-> Num(0)])
                 /\ response'.status = 404
                 /\ response'.error = "City not found"
                 /\ user_cities' = user_cities]_vars

C21_Witness ==
  /\ response # NoValue
  /\ response.route = "DELETE /:id"
  /\ response.status = 404
  /\ response.called = Obj([id |-> Num(2)])
  /\ sqlite_sequence >= 2
  /\ RowsWithId(user_cities, 2) = {}
  /\ Cardinality(user_cities) = 3

\* the ids of a list of rows are in falling order: ids are handed out in
\* rising order (AUTOINCREMENT), so this is "most recently added first"
RECURSIVE IdsFalling(_)
IdsFalling(listed) ==
  \/ Len(listed) < 2
  \/ /\ listed[1].id > listed[2].id
     /\ IdsFalling(Tail(listed))

\* C22: the list GET / returns has the most recently added city first, then
\* the one added before it, and so on, whatever was added and removed before
\* and also for cities added within one second.
C22_MostRecentFirst ==
  (response # NoValue /\ response.route = "GET /") =>
    IdsFalling(response.data[2])

\* C26: in the normalized current weather details.visibility is null exactly
\* when the upstream payload has no visibility field; when the field is there,
\* 0 metres included, it is the visibility rounded to kilometres.
C26_VisibilityNullIffAbsent ==
  normalized # NoValue =>
    /\ normalized.details.visibility = Null
         <=> upstreamCurrent.visibility = Undefined
    /\ upstreamCurrent.visibility # Undefined =>
         normalized.details.visibility = MathRoundKm(upstreamCurrent.visibility)

\* a coordinate pair the boundary admits: finite numbers, the latitude in
\* [-90, 90] and the longitude in [-180, 180]
ValidCoordinates(lat, lon) ==
  /\ IsNum(lat) /\ lat[2] >= -90000 /\ lat[2] <= 90000
  /\ IsNum(lon) /\ lon[2] >= -180000 /\ lon[2] <= 180000

\* the gateway calls a response of the weather router has made
CallsOf(r) == r.called[2]

\* C23: no route hands the gateway a latitude outside [-90, 90], a longitude
\* outside [-180, 180] or a coordinate that is no number: whatever a route
\* has called the gateway with is a valid pair, and a request with another
\* pair is answered 400 with no call made.
C23_GatewayGetsValidCoordinates ==
  \A i \in 1..Len(CallsOf(response)) :
    ValidCoordinates(CallsOf(response)[i].lat, CallsOf(response)[i].lon)

\* the response of POST /batch to an array of cities
BatchAnswered ==
  /\ response.route = "POST /batch"
  /\ response.status # 0
  /\ response.request[2].cities # Undefined

\* the cities of the request of POST /batch
BatchOf(r) == r.request[2].cities[2]

\* C24: POST /batch with 1 to 10 valid cities answers with one result per
\* city, in the order of the request, each tagged with the id of its city,
\* failed exactly when the gateway call of that city failed and holding the
\* weather of that city otherwise; a batch of more than 10 cities is answered
\* 400 with no gateway call made.
C24_OneResultPerCity ==
  BatchAnswered =>
    LET list == BatchOf(response)
    IN /\ Len(list) > BatchLimit =>
            response.status = 400 /\ CallsOf(response) = <<>>
       /\ (/\ Len(list) \in 1..BatchLimit
           /\ \A i \in 1..Len(list) : ValidCoordinates(list[i].lat, list[i].lon)) =>
            /\ response.status = 200
            /\ Len(response.data[2]) = Len(list)
            /\ \A i \in 1..Len(list) :
                 LET result == response.data[2][i]
                 IN /\ result.cityId = list[i].id
                    /\ result.success = CallsOf(response)[i].fulfilled
                    /\ result.success =>
                         result.data = Obj([lat |-> list[i].lat,
                                            lon |-> list[i].lon])

\* C25: no failure of an upstream call or of an operation of the store (the
\* usage log and the periodic sweep among them) makes the server stop
\* listening or the process exit.
C25_NoFailureStopsServer == server = "listening"

\* C28: POST /batch with 1 to 10 cities answers 400 "Invalid city data"
\* exactly when some city has a latitude or a longitude that is missing or no
\* number; a city at latitude 0 or longitude 0 is fetched like any other.
C28_InvalidCityDataIffNotNumber ==
  (BatchAnswered /\ Len(BatchOf(response)) \in 1..BatchLimit) =>
    ((response.status = 400 /\ response.error = "Invalid city data")
       <=> \E i \in 1..Len(BatchOf(response)) :
             \/ ~ IsNum(BatchOf(response)[i].lat)
             \/ ~ IsNum(BatchOf(response)[i].lon))

\* the ids of a list
IdsOf(list) == {list[i] : i \in DOMAIN list}

\* C27: after every selection and every deletion the selected id is the id of
\* a city of the list, or null when the list is empty; a deletion of a city
\* other than the selected one leaves the selection as it was.
C27_SelectionFollowsList ==
  [][/\ IF cities' = <<>> THEN selectedCityId' = Null
        ELSE IsNum(selectedCityId') /\ selectedCityId'[2] \in IdsOf(cities')
     /\ (cities' # cities /\ Num(CHOOSE id \in IdsOf(cities) : id \notin IdsOf(cities'))
                               # selectedCityId) =>
          selectedCityId' = selectedCityId]_vars

\* C29: once typing has stopped on a query of two characters or more, no
\* timer is pending and every search has been answered, the results shown are
\* those of the last query searched: the response to an earlier query never
\* stands in their place.
C29_LastQueryWins ==
  (/\ searchTimeout = Null
   /\ inFlight = <<>>
   /\ searched # Null
   /\ length(trim(searchQuery)) >= 2) =>
    searchResults = SearchData(searched)

====
